---- MODULE Spec2Model ----
(***************************************************************************)
(* A model of prologue_logger (src/src/lib.rs, src/src/error.rs):          *)
(*   - the annotation engine and the consuming EntrySourceBuilder          *)
(*     (SourceLine::annotate, new_line, note, help, finish, discard);      *)
(*   - Target / TargetList: the warning and error counters behind          *)
(*     Arc<Mutex<usize>>, the list behind Arc<Mutex<Vec<Target>>>, and the *)
(*     threads that share clones of them.                                  *)
(* Option<T> is modelled as a sequence of length at most one:              *)
(* <<>> is None and <<x>> is Some(x).                                      *)
(***************************************************************************)
EXTENDS Integers, Sequences, FiniteSets, Bags, TLC

(***************************************************************************)
(* Bounds of the model.                                                    *)
(***************************************************************************)
\* annotation positions range over 0..MaxPos
MaxPos == 3
\* annotation lengths range over 0..MaxLen
MaxLen == 2
\* annotations accepted on one source line
MaxAnnotations == 2
\* new_line, annotate_*, note and help calls made on one builder
MaxCalls == 5

\* threads sharing clones of the targets and of the list
NumThreads == 2
\* new_line calls of a rendered entry
MaxLines == 2
\* entries of a rendered group
MaxMembers == 2

\* calls started by all threads together in one run
MaxOps == 2
\* Target objects created in one run
MaxTargets == 3
MaxDrawn == 3

\* enum EntryKind, in declaration order
EntryKinds == {"Help", "Note", "Warning", "Error"}
\* the labels given to annotations and notes: an empty and a non-empty one
Texts == {"", "x"}
\* line numbers handed to source() and new_line()
LineNumbers == {5, 12}
Filenames == {"main.rs"}
\* every (pos, len) within the bounds
AllSpans == (0..MaxPos) \X (0..MaxLen)
\* the inputs of the builder chains: two spans that touch, one that
\* overlaps both, and an empty one inside the first
BuilderSpans == {<<0, 2>>, <<2, 2>>, <<1, 2>>, <<1, 0>>}
BuilderKinds == {"Error", "Help"}
BuilderTexts == {"x"}
\* the kinds and labels of the annotations put on the single line of SpecLine
LineKinds == {"Error", "Help"}
LineTexts == {"x"}

VARIABLES
    \* ---- builder side -------------------------------------------------
    phase,      \* "entry": an Entry, no builder yet; "building"; "finished"; "discarded";
                \* "displayed" / "displayed_multi": the entry / the group was written
    entry,      \* the Entry in hand (phase "entry", "finished", "discarded")
    entry0,     \* the Entry on which source()/named_source() was called
    esb,        \* Option<EntrySourceBuilder>: the builder in the caller's hands
    err,        \* ErrorKind of the last builder call, "None" when it returned Ok
    partial,    \* Option: partial configuration carried by the last error
    ncalls,     \* builder calls made so far
    made,       \* the calls made on the builder: per new_line call the line
                \* and the annotations accepted while it was open, and the
                \* note / help calls in order
    \* ---- rendering ---------------------------------------------------
    multi,      \* MultiEntry.entries of the group in hand
    out,        \* the text written by the last Display::fmt, line by line
    \* ---- target side --------------------------------------------------
    targets,    \* the Target objects created so far (a clone shares its index)
    list,       \* TargetList.list: the Vec<Target> behind the mutex
    list_lock,  \* holder of the list's mutex, 0 when free
    th,         \* per thread: the call in progress and its locals
    nops,       \* calls started so far
    submitted   \* per target: Warning and Error submissions started so far

bvars == <<phase, entry, entry0, esb, err, partial, ncalls, made>>
rvars == <<multi, out>>
tvars == <<targets, list, list_lock, th, nops, submitted>>
vars == <<phase, entry, entry0, esb, err, partial, ncalls, made, multi, out,
          targets, list, list_lock, th, nops, submitted>>

(***************************************************************************)
(* Annotation, SourceLine                                                  *)
(***************************************************************************)
\* impl From<(usize, usize)> for AnnotationReference
AnnotationReference(position, len) == [position |-> position, len |-> len]

\* impl Ord for Annotation / AnnotationReference: by position only;
\* a <= b under that order
Annotation_le(a, b) == a.reference.position <= b.reference.position

\* a sort that leaves the vector as pushed
sort_skipped(v) == v

\* one insertion step of the stable sort: x goes after every element that
\* does not compare greater than x
RECURSIVE sort_insert(_, _)
sort_insert(s, x) ==
    IF s = <<>> \/ Annotation_le(s[Len(s)], x)
    THEN Append(s, x)
    ELSE Append(sort_insert(SubSeq(s, 1, Len(s) - 1), x), s[Len(s)])

\* Vec::sort: a stable sort under Ord for Annotation
RECURSIVE sort(_)
sort(v) ==
    IF Len(v) <= 1 THEN v
    ELSE sort_insert(sort(SubSeq(v, 1, Len(v) - 1)), v[Len(v)])

\* a scan that stops at the first annotation ending before the new one
\* instead of skipping it
annotate_scan_break_early(annotations, i, annotation) ==
    IF i > Len(annotations) THEN FALSE
    ELSE LET ann_ref == annotations[i].reference IN
         IF ann_ref.position + ann_ref.len <= annotation.reference.position
         THEN FALSE
         ELSE IF annotation.reference.position + annotation.reference.len
                    <= ann_ref.position
         THEN FALSE
         ELSE TRUE

\* a scan that skips a previous annotation by its start instead of its end
RECURSIVE annotate_scan_by_start(_, _, _)
annotate_scan_by_start(annotations, i, annotation) ==
    IF i > Len(annotations) THEN FALSE
    ELSE LET ann_ref == annotations[i].reference IN
         IF ann_ref.position <= annotation.reference.position
         THEN annotate_scan_by_start(annotations, i + 1, annotation)
         ELSE IF annotation.reference.position + annotation.reference.len
                    <= ann_ref.position
         THEN FALSE
         ELSE TRUE

\* the for loop of SourceLine::annotate from index i on: TRUE when it
\* returns Err(OverlappingAnnotation), FALSE when it ends (or breaks)
RECURSIVE annotate_scan(_, _, _)
annotate_scan(annotations, i, annotation) ==
    IF i > Len(annotations) THEN FALSE
    ELSE LET ann_ref == annotations[i].reference IN
         IF ann_ref.position + ann_ref.len <= annotation.reference.position
         THEN annotate_scan(annotations, i + 1, annotation)      \* continue
         ELSE IF annotation.reference.position + annotation.reference.len
                    <= ann_ref.position
         THEN FALSE                                              \* break
         ELSE TRUE                                               \* return Err

\* SourceLine::new
SourceLine_new(line, contents) ==
    [line |-> line, contents |-> contents, annotations |-> <<>>]

\* an annotate that pushes the annotation before it validates it
SourceLine_annotate_push_first(self, style, reference, text) ==
    LET annotation == [style |-> style, reference |-> reference, text |-> text]
        pushed == [self EXCEPT !.annotations = sort(Append(@, annotation))]
    IN  IF annotate_scan(self.annotations, 1, annotation)
        THEN [ok |-> FALSE, line |-> pushed]
        ELSE [ok |-> TRUE, line |-> pushed]

\* SourceLine::annotate(&mut self, ..): the result and the line afterwards
SourceLine_annotate(self, style, reference, text) ==
    LET annotation == [style |-> style, reference |-> reference, text |-> text] IN
    IF annotate_scan(self.annotations, 1, annotation)
    THEN [ok |-> FALSE, line |-> self]
    ELSE [ok |-> TRUE,
          line |-> [self EXCEPT !.annotations = sort(Append(@, annotation))]]

(***************************************************************************)
(* Source, Entry, EntrySourceBuilder                                       *)
(***************************************************************************)
\* Source::new
Source_new(line_number, position) ==
    [filename |-> <<>>, line_number |-> line_number, position |-> position,
     lines |-> <<>>, notes |-> <<>>]

\* Source::add_line
Source_add_line(self, line) == [self EXCEPT !.lines = Append(@, line)]

\* Entry::new
Entry_new(kind, text) ==
    [kind |-> kind, bright |-> FALSE, text |-> text, source |-> <<>>]

\* Entry::source
Entry_source(self, line_number, pos) ==
    [entry |-> [self EXCEPT !.bright = TRUE],
     source |-> Source_new(line_number, pos),
     source_line |-> <<>>]

\* Entry::named_source
Entry_named_source(self, filename, line_number, pos) ==
    [entry |-> [self EXCEPT !.bright = TRUE],
     source |-> [Source_new(line_number, pos) EXCEPT !.filename = <<filename>>],
     source_line |-> <<>>]

\* an annotate that lets a call without an open line pass, doing nothing
EntrySourceBuilder_annotate_lenient(self, kind, pos, len, text) ==
    IF self.source_line # <<>>
    THEN LET r == SourceLine_annotate(self.source_line[1], kind,
                                      AnnotationReference(pos, len), text)
             after == [self EXCEPT !.source_line = <<r.line>>]
         IN  IF r.ok
             THEN [kind |-> "Ok", value |-> <<after>>, partial |-> <<>>]
             ELSE [kind |-> "OverlappingAnnotation", value |-> <<>>,
                   partial |-> <<after>>]
    ELSE [kind |-> "Ok", value |-> <<self>>, partial |-> <<>>]

\* EntrySourceBuilder::annotate: kind "Ok" with the builder returned, or an
\* ErrorKind with the partial configuration attached to the error
EntrySourceBuilder_annotate(self, kind, pos, len, text) ==
    IF self.source_line # <<>>
    THEN LET r == SourceLine_annotate(self.source_line[1], kind,
                                      AnnotationReference(pos, len), text)
             after == [self EXCEPT !.source_line = <<r.line>>]
         IN  IF r.ok
             THEN [kind |-> "Ok", value |-> <<after>>, partial |-> <<>>]
             ELSE [kind |-> "OverlappingAnnotation", value |-> <<>>,
                   partial |-> <<after>>]
    ELSE [kind |-> "AnnotationOnEmptyLine", value |-> <<>>, partial |-> <<self>>]

\* a new_line that drops the open line instead of flushing it
EntrySourceBuilder_new_line_drop(self, line_number, source) ==
    [self EXCEPT !.source_line = <<SourceLine_new(line_number, source)>>]

\* EntrySourceBuilder::new_line
EntrySourceBuilder_new_line(self, line_number, source) ==
    LET line == SourceLine_new(line_number, source) IN
    IF self.source_line # <<>>
    THEN [self EXCEPT !.source.lines = Append(@, self.source_line[1]),
                      !.source_line = <<line>>]
    ELSE [self EXCEPT !.source_line = <<line>>]

\* EntrySourceBuilder::note / help
EntrySourceBuilder_note(self, text) ==
    [self EXCEPT !.source.notes = Append(@, [kind |-> "Note", text |-> text])]

\* a help that is stored as a note
EntrySourceBuilder_help_as_note(self, text) ==
    [self EXCEPT !.source.notes = Append(@, [kind |-> "Note", text |-> text])]

\* EntrySourceBuilder::help
EntrySourceBuilder_help(self, text) ==
    [self EXCEPT !.source.notes = Append(@, [kind |-> "Help", text |-> text])]

\* EntrySourceBuilder::finish
EntrySourceBuilder_finish(self) ==
    LET source == IF self.source_line # <<>>
                  THEN Source_add_line(self.source, self.source_line[1])
                  ELSE self.source
    IN  [self.entry EXCEPT !.source = <<source>>]

\* EntrySourceBuilder::discard
EntrySourceBuilder_discard(self) == self.entry

(***************************************************************************)
(* The builder as a state machine: one caller drives one builder chain.    *)
(***************************************************************************)
\* annotations on the open line (none when no line is open)
OpenAnnotations(b) ==
    IF b.source_line = <<>> THEN 0 ELSE Len(b.source_line[1].annotations)

\* no call made on the builder yet
NoCalls == [lines |-> <<>>, notes |-> <<>>]
\* a new_line call as made
CalledLine(line_number, contents) ==
    [line |-> line_number, contents |-> contents, annotations |-> EmptyBag]
\* the calls made, after an annotate_* call returned Ok: the annotation
\* goes to the line of the last new_line call
Accepted(annotation) ==
    IF made.lines = <<>> THEN made
    ELSE [made EXCEPT !.lines[Len(made.lines)].annotations =
                          @ (+) SetToBag({annotation})]

\* no group in hand and nothing written
NoRender ==
    /\ multi = <<>>
    /\ out = <<>>

\* the target side, unused by the builder specifications
NoTargets ==
    /\ targets = <<>>
    /\ list = <<>>
    /\ list_lock = 0
    /\ th = <<>>
    /\ nops = 0
    /\ submitted = <<>>

BuilderInit ==
    /\ NoTargets
    /\ NoRender
    /\ made = NoCalls
    /\ phase = "entry"
    /\ entry \in {Entry_new(kind, "msg") : kind \in {"Warning", "Error"}}
    /\ entry0 = entry
    /\ esb = <<>>
    /\ err = "None"
    /\ partial = <<>>
    /\ ncalls = 0

\* entry.source(line_number, pos)
source ==
    /\ phase = "entry"
    /\ esb' = <<Entry_source(entry, 12, 1)>>
    /\ phase' = "building"
    /\ entry0' = entry
    /\ made' = NoCalls
    /\ UNCHANGED <<entry, err, partial, ncalls, multi, out, targets, list, list_lock, th,
                   nops, submitted>>

\* entry.named_source(filename, line_number, pos)
named_source ==
    /\ phase = "entry"
    /\ \E filename \in Filenames :
          esb' = <<Entry_named_source(entry, filename, 12, 1)>>
    /\ phase' = "building"
    /\ entry0' = entry
    /\ made' = NoCalls
    /\ UNCHANGED <<entry, err, partial, ncalls, multi, out, targets, list, list_lock, th,
                   nops, submitted>>

\* builder.new_line(line_number, source)
new_line ==
    /\ phase = "building"
    /\ ncalls < MaxCalls
    /\ \E line_number \in LineNumbers :
          /\ esb' = <<EntrySourceBuilder_new_line(esb[1], line_number, "src")>>
          /\ made' = [made EXCEPT !.lines = Append(@, CalledLine(line_number, "src"))]
    /\ err' = "None"
    /\ partial' = <<>>
    /\ ncalls' = ncalls + 1
    /\ UNCHANGED <<phase, entry, entry0, multi, out, targets, list, list_lock, th, nops,
                   submitted>>

\* builder.annotate_err / annotate_warn / annotate_note / annotate_help with
\* inputs from the given sets: on Ok the caller goes on with the returned
\* builder, on Err with the builder recovered from the error's partial
\* configuration
annotate(spans, kinds, texts) ==
    /\ phase = "building"
    /\ \E kind \in kinds, span \in spans, text \in texts :
          LET r == EntrySourceBuilder_annotate(esb[1], kind, span[1], span[2], text) IN
          /\ err' = IF r.kind = "Ok" THEN "None" ELSE r.kind
          /\ partial' = r.partial
          /\ esb' = IF r.kind = "Ok" THEN r.value ELSE r.partial
          /\ made' = IF r.kind = "Ok"
                     THEN Accepted([style |-> kind,
                                    reference |-> AnnotationReference(span[1], span[2]),
                                    text |-> text])
                     ELSE made
    /\ UNCHANGED <<phase, entry, entry0, multi, out, targets, list, list_lock, th, nops,
                   submitted>>

\* an annotate_* call of a builder chain
builder_annotate ==
    /\ ncalls < MaxCalls
    /\ ncalls' = ncalls + 1
    /\ annotate(BuilderSpans, BuilderKinds, BuilderTexts)

\* builder.note(text)
note ==
    /\ phase = "building"
    /\ ncalls < MaxCalls
    /\ \E text \in BuilderTexts :
          /\ esb' = <<EntrySourceBuilder_note(esb[1], text)>>
          /\ made' = [made EXCEPT !.notes = Append(@, <<"note", text>>)]
    /\ err' = "None"
    /\ partial' = <<>>
    /\ ncalls' = ncalls + 1
    /\ UNCHANGED <<phase, entry, entry0, multi, out, targets, list, list_lock, th, nops,
                   submitted>>

\* builder.help(text)
help ==
    /\ phase = "building"
    /\ ncalls < MaxCalls
    /\ \E text \in BuilderTexts :
          /\ esb' = <<EntrySourceBuilder_help(esb[1], text)>>
          /\ made' = [made EXCEPT !.notes = Append(@, <<"help", text>>)]
    /\ err' = "None"
    /\ partial' = <<>>
    /\ ncalls' = ncalls + 1
    /\ UNCHANGED <<phase, entry, entry0, multi, out, targets, list, list_lock, th, nops,
                   submitted>>

\* builder.finish()
finish ==
    /\ phase = "building"
    /\ entry' = EntrySourceBuilder_finish(esb[1])
    /\ phase' = "finished"
    /\ esb' = <<>>
    /\ err' = "None"
    /\ partial' = <<>>
    /\ UNCHANGED <<entry0, ncalls, made, multi, out, targets, list, list_lock, th, nops,
                   submitted>>

\* builder.discard()
discard ==
    /\ phase = "building"
    /\ entry' = EntrySourceBuilder_discard(esb[1])
    /\ phase' = "discarded"
    /\ esb' = <<>>
    /\ err' = "None"
    /\ partial' = <<>>
    /\ UNCHANGED <<entry0, ncalls, made, multi, out, targets, list, list_lock, th, nops,
                   submitted>>

BuilderNext ==
    \/ source
    \/ named_source
    \/ new_line
    \/ builder_annotate
    \/ note
    \/ help
    \/ finish
    \/ discard

SpecBuilder == BuilderInit /\ [][BuilderNext]_vars

(***************************************************************************)
(* One source line under annotate: the builder right after                 *)
(* Entry::new_error("msg").source(12, 1).new_line(12, "src"), then any     *)
(* annotate_* calls with every span, kind and label within the bounds.     *)
(***************************************************************************)
LineInit ==
    /\ NoTargets
    /\ NoRender
    /\ made = [NoCalls EXCEPT !.lines = <<CalledLine(12, "src")>>]
    /\ phase = "building"
    /\ entry = Entry_new("Error", "msg")
    /\ entry0 = entry
    /\ esb = <<EntrySourceBuilder_new_line(Entry_source(entry, 12, 1), 12, "src")>>
    /\ err = "None"
    /\ partial = <<>>
    /\ ncalls = 1

\* an annotate_* call on the open line; a line that holds MaxAnnotations
\* annotations only sees the calls it rejects
line_annotate ==
    /\ annotate(AllSpans, LineKinds, LineTexts)
    /\ err' = "None" => OpenAnnotations(esb[1]) < MaxAnnotations
    /\ UNCHANGED ncalls

LineNext == line_annotate

SpecLine == LineInit /\ [][LineNext]_vars

(***************************************************************************)
(* Display.  A rendered text is a sequence of rows (the text between two   *)
(* newlines), a row a sequence of strings: every padding blank, glyph,     *)
(* digit and punctuation mark is one string of one character, and a text   *)
(* given by the caller (message, source line, label, file name) is one     *)
(* string, left out when it is empty.  Styling adds no characters.         *)
(***************************************************************************)
\* n blanks
Spaces(n) == [i \in 1..n |-> " "]

\* a caller's text as written by "{}"
Text(text) == IF text = "" THEN <<>> ELSE <<text>>

\* format!("{}", n) of a usize
RECURSIVE Decimal(_)
Decimal(n) ==
    LET digit == <<"0", "1", "2", "3", "4", "5", "6", "7", "8", "9">>[(n % 10) + 1]
    IN  IF n < 10 THEN <<digit>> ELSE Append(Decimal(n \div 10), digit)

\* "{: <len$}": blanks after the value, up to len characters
PadRight(row, len) ==
    IF Len(row) >= len THEN row ELSE row \o Spaces(len - Len(row))

\* "{: >len$}": blanks before the value, up to len characters
PadLeft(row, len) ==
    IF Len(row) >= len THEN row ELSE Spaces(len - Len(row)) \o row

\* the greatest number of a non-empty set
MaxOf(S) == CHOOSE x \in S : \A y \in S : y <= x

\* Display for EntryKind, NoteKind::as_str
EntryKind_fmt(kind) ==
    CASE kind = "Help" -> "help"
      [] kind = "Note" -> "note"
      [] kind = "Warning" -> "warning"
      [] kind = "Error" -> "error"

\* str::lines of the texts of the model
str_lines(text) ==
    CASE text = "" -> <<>>
      [] text = "x\ny" -> <<"x", "y">>
      [] OTHER -> <<text>>

\* "{: >len$} {}" of "" and LineStart: the margin of a row without number
Margin(width) == Spaces(width) \o <<" ", "|">>

\* what "position - *offset" gives when it underflows: a panic with this
\* message where overflow checks are on
SubtractOverflow == "attempt to subtract with overflow"

\* Annotation::advance: the pad from the cursor to the annotation
Annotation_advance(self, offset) ==
    IF self.reference.position >= offset
    THEN Spaces(self.reference.position - offset)
    ELSE <<SubtractOverflow>>

\* an underline of carets whatever the style
AnnotationUnderline_carets(style, len) == [i \in 1..len |-> "^"]

\* Display for AnnotationUnderline: len glyphs, '-' for Help, '^' otherwise
AnnotationUnderline(style, len) ==
    [i \in 1..len |-> IF style = "Help" THEN "-" ELSE "^"]

\* the cursor after annotations 1..k have been drawn
OffsetAfter(annotations, k) ==
    IF k = 0 THEN 0
    ELSE annotations[k].reference.position + annotations[k].reference.len

\* Annotation::draw_underline for annotations i..Len, cursor at offset
RECURSIVE draw_underline(_, _, _)
draw_underline(annotations, i, offset) ==
    IF i > Len(annotations) THEN <<>>
    ELSE Annotation_advance(annotations[i], offset)
         \o AnnotationUnderline(annotations[i].style, annotations[i].reference.len)
         \o draw_underline(annotations, i + 1, OffsetAfter(annotations, i))

\* Annotation::draw_text_arrow for annotations i..k, cursor at offset
RECURSIVE draw_text_arrow(_, _, _, _)
draw_text_arrow(annotations, i, k, offset) ==
    IF i > k THEN <<>>
    ELSE Annotation_advance(annotations[i], offset)
         \o (IF annotations[i].text # ""
             THEN PadRight(<<"|">>, annotations[i].reference.len)
             ELSE Spaces(annotations[i].reference.len))
         \o draw_text_arrow(annotations, i + 1, k, OffsetAfter(annotations, i))

\* the "while let Some(ann) = annotations.pop()" loop of Display for
\* SourceLine, with annotations 1..k left in the vector: per annotation a
\* row of arrows and a row that ends with its text
RECURSIVE SourceLine_fmt_others(_, _, _)
SourceLine_fmt_others(annotations, k, width) ==
    IF k = 0 THEN <<>>
    ELSE << Margin(width) \o draw_text_arrow(annotations, 1, k, 0),
            Margin(width) \o draw_text_arrow(annotations, 1, k - 1, 0)
                \o Annotation_advance(annotations[k], OffsetAfter(annotations, k - 1))
                \o Text(annotations[k].text) >>
         \o SourceLine_fmt_others(annotations, k - 1, width)

\* Display for SourceLine; fwidth is f.width()
SourceLine_fmt(self, fwidth) ==
    LET width == IF fwidth # <<>> THEN fwidth[1] ELSE Len(Decimal(self.line))
        n == Len(self.annotations)
    IN  << PadRight(Decimal(self.line), width) \o <<" ", "|", " ">>
               \o Text(self.contents) >>
        \o (IF n > 0
            THEN << Margin(width) \o draw_underline(self.annotations, 1, 0)
                        \o <<" ">> \o Text(self.annotations[n].text) >>
                 \o SourceLine_fmt_others(self.annotations, n - 1, width)
            ELSE <<>>)

\* Display for Note; fwidth is f.width()
Note_fmt(self, fwidth) ==
    LET len == IF fwidth # <<>> THEN fwidth[1] ELSE 0
        lines == str_lines(self.text)
    IN  [i \in 1..Len(lines) |->
            IF i = 1
            THEN PadLeft(<<"=">>, len + 2)
                 \o <<" ", EntryKind_fmt(self.kind), ":", " ">> \o Text(lines[i])
            ELSE PadLeft(<<" ">>, len + 2) \o Spaces(7) \o Text(lines[i])]

\* the rows of the elements of a vector, one element after the other
RECURSIVE Flatten(_)
Flatten(rowss) ==
    IF rowss = <<>> THEN <<>> ELSE Head(rowss) \o Flatten(Tail(rowss))

\* Display for Source without a width given: the greatest line number of
\* the lines, the line number of the source when it has no line
Source_width(self) ==
    Len(Decimal(IF self.lines = <<>> THEN self.line_number
                ELSE MaxOf({self.lines[i].line : i \in 1..Len(self.lines)})))

\* Display for Source; fwidth is f.width()
Source_fmt(self, fwidth) ==
    LET width == IF fwidth # <<>> THEN fwidth[1] ELSE Source_width(self)
        n == Len(self.lines)
    IN  << Spaces(width) \o <<"-", "-", ">", " ">>
               \o (IF self.filename # <<>> THEN Text(self.filename[1])
                   ELSE <<"<anonymous>">>)
               \o <<":">> \o Decimal(self.line_number)
               \o <<":">> \o Decimal(self.position),
           Margin(width) >>
        \o Flatten([i \in 1..n |-> SourceLine_fmt(self.lines[i], <<width>>)])
        \o (IF n = 0 \/ Len(self.lines[n].annotations) = 0
            THEN <<Margin(width)>> ELSE <<>>)
        \o (IF Len(self.notes) > 0 THEN <<Margin(width)>> ELSE <<>>)
        \o Flatten([i \in 1..Len(self.notes) |-> Note_fmt(self.notes[i], <<width>>)])

\* an Entry that ends with an empty row whatever the width
Entry_fmt_blank(self, fwidth) ==
    << <<EntryKind_fmt(self.kind), ":", " ">> \o Text(self.text) >>
    \o (IF self.source # <<>> THEN Source_fmt(self.source[1], fwidth) ELSE <<>>)
    \o << <<>> >>

\* Display for Entry; fwidth is f.width(), which the source is given too
Entry_fmt(self, fwidth) ==
    << <<EntryKind_fmt(self.kind), ":", " ">> \o Text(self.text) >>
    \o (IF self.source # <<>> THEN Source_fmt(self.source[1], fwidth) ELSE <<>>)
    \o (IF fwidth = <<>> /\ self.source # <<>> THEN << <<>> >> ELSE <<>>)

\* Display for MultiEntry, the width: the digits of the greatest
\* source.line_number of the members, 1 for a member without source
MultiEntry_width(entries) ==
    Len(Decimal(IF entries = <<>> THEN 1
                ELSE MaxOf({IF entries[i].source # <<>>
                            THEN entries[i].source[1].line_number ELSE 1 :
                                i \in 1..Len(entries)})))

\* Display for MultiEntry
MultiEntry_fmt(entries) ==
    Flatten([i \in 1..Len(entries) |->
                Entry_fmt(entries[i], <<MultiEntry_width(entries)>>)])
    \o << <<>> >>

(***************************************************************************)
(* Rendering: the caller holds an Entry, pushes entries into a MultiEntry  *)
(* and writes the entry or the group with "{}".                            *)
(***************************************************************************)
\* the line and line_number arguments of the rendered entries
RenderAnchors == {1, 5, 100}
RenderLineNumbers == {5, 1163}
\* the note / help calls of the rendered entries: kind and text
RenderNotes ==
    {<<>>, <<<<"Note", "x">>>>, <<<<"Help", "">>, <<"Note", "x\ny">>>>}
\* the annotate_* calls on the last line of the rendered entries
RenderAnnotations ==
    {<<>>, <<<<"Error", 1, 2, "x">>>>, <<<<"Help", 3, 1, "">>, <<"Error", 0, 2, "x">>>>}
\* the numbers of the new_line calls: every sequence of at most MaxLines
RenderLines == UNION {[1..n -> RenderLineNumbers] : n \in 0..MaxLines}

\* builder.new_line(numbers[i], "src") for i from 1
RECURSIVE with_lines(_, _)
with_lines(builder, numbers) ==
    IF numbers = <<>> THEN builder
    ELSE with_lines(EntrySourceBuilder_new_line(builder, Head(numbers), "src"),
                    Tail(numbers))

\* builder.annotate_*(pos, len, text)? for each call, all of them accepted
RECURSIVE with_annotations(_, _)
with_annotations(builder, calls) ==
    IF calls = <<>> \/ builder.source_line = <<>> THEN builder
    ELSE with_annotations(
            EntrySourceBuilder_annotate(builder, Head(calls)[1], Head(calls)[2],
                                        Head(calls)[3], Head(calls)[4]).value[1],
            Tail(calls))

\* builder.note(text) / builder.help(text) for each call
RECURSIVE with_notes(_, _)
with_notes(builder, calls) ==
    IF calls = <<>> THEN builder
    ELSE with_notes(IF Head(calls)[1] = "Note"
                    THEN EntrySourceBuilder_note(builder, Head(calls)[2])
                    ELSE EntrySourceBuilder_help(builder, Head(calls)[2]),
                    Tail(calls))

\* Entry::new_error("msg").source(anchor, 1) ... .finish()
Built(anchor, numbers, annotations, notes) ==
    EntrySourceBuilder_finish(
        with_notes(with_annotations(
            with_lines(Entry_source(Entry_new("Error", "msg"), anchor, 1), numbers),
            annotations), notes))

\* the entries written alone
RenderEntries ==
    {Entry_new(kind, "msg") : kind \in {"Warning", "Help"}}
    \cup {Built(anchor, numbers, annotations, notes) :
            anchor \in RenderAnchors, numbers \in RenderLines,
            annotations \in RenderAnnotations, notes \in RenderNotes}

\* the entries put in groups: without source, or with at most one line
GroupEntries ==
    {Entry_new("Warning", "msg")}
    \cup {Built(anchor, numbers, annotations, <<>>) :
            anchor \in RenderAnchors,
            numbers \in {<<>>, <<5>>, <<1163>>},
            annotations \in {<<>>, <<<<"Error", 1, 2, "x">>>>}}

RenderInit ==
    /\ NoTargets
    /\ NoRender
    /\ made = NoCalls
    /\ phase = "entry"
    /\ entry \in RenderEntries
    /\ entry0 = entry
    /\ esb = <<>>
    /\ err = "None"
    /\ partial = <<>>
    /\ ncalls = 0

\* multi.entry(entry), and the caller makes its next entry
MultiEntry_entry ==
    /\ phase = "entry"
    /\ Len(multi) < MaxMembers
    /\ entry \in GroupEntries
    /\ multi' = Append(multi, entry)
    /\ entry' \in GroupEntries
    /\ entry0' = entry'
    /\ UNCHANGED <<phase, esb, err, partial, ncalls, made, out>>
    /\ UNCHANGED tvars

\* print!("{}", multi)
Display_MultiEntry ==
    /\ phase = "entry"
    /\ out' = MultiEntry_fmt(multi)
    /\ phase' = "displayed_multi"
    /\ UNCHANGED <<entry, entry0, esb, err, partial, ncalls, made, multi>>
    /\ UNCHANGED tvars

\* print!("{}", entry) of the entry in hand, not part of a group
Display_Entry ==
    /\ phase \in {"entry", "finished"}
    /\ multi = <<>>
    /\ out' = Entry_fmt(entry, <<>>)
    /\ phase' = "displayed"
    /\ UNCHANGED <<entry, entry0, esb, err, partial, ncalls, made, multi>>
    /\ UNCHANGED tvars

RenderNext ==
    \/ MultiEntry_entry
    \/ Display_MultiEntry
    \/ Display_Entry

SpecRender == RenderInit /\ [][RenderNext]_vars

(***************************************************************************)
(* Notes: a builder right after Entry::new_error("msg").source(12, 1),     *)
(* then note, help, new_line and annotate calls in any order, finish and   *)
(* the finished entry written.                                             *)
(***************************************************************************)
\* the texts of the notes: an empty and a non-empty one
NoteTexts == {"", "x"}

NotesInit ==
    /\ NoTargets
    /\ NoRender
    /\ made = NoCalls
    /\ phase = "building"
    /\ entry = Entry_new("Error", "msg")
    /\ entry0 = entry
    /\ esb = <<Entry_source(entry, 12, 1)>>
    /\ err = "None"
    /\ partial = <<>>
    /\ ncalls = 0

\* builder.note(text)
notes_note ==
    /\ phase = "building"
    /\ ncalls < MaxCalls
    /\ \E text \in NoteTexts :
          /\ esb' = <<EntrySourceBuilder_note(esb[1], text)>>
          /\ made' = [made EXCEPT !.notes = Append(@, <<"note", text>>)]
    /\ err' = "None"
    /\ partial' = <<>>
    /\ ncalls' = ncalls + 1
    /\ UNCHANGED <<phase, entry, entry0, multi, out>>
    /\ UNCHANGED tvars

\* builder.help(text)
notes_help ==
    /\ phase = "building"
    /\ ncalls < MaxCalls
    /\ \E text \in NoteTexts :
          /\ esb' = <<EntrySourceBuilder_help(esb[1], text)>>
          /\ made' = [made EXCEPT !.notes = Append(@, <<"help", text>>)]
    /\ err' = "None"
    /\ partial' = <<>>
    /\ ncalls' = ncalls + 1
    /\ UNCHANGED <<phase, entry, entry0, multi, out>>
    /\ UNCHANGED tvars

\* builder.annotate_err(0, 2, "x") between the notes
notes_annotate ==
    /\ ncalls < MaxCalls
    /\ ncalls' = ncalls + 1
    /\ annotate({<<0, 2>>}, {"Error"}, {"x"})

NotesNext ==
    \/ notes_note
    \/ notes_help
    \/ new_line
    \/ notes_annotate
    \/ finish
    \/ Display_Entry

SpecNotes == NotesInit /\ [][NotesNext]_vars

(***************************************************************************)
(* One annotated line, written: the builder of SpecLine takes annotate_*   *)
(* calls with every span, two kinds and both labels, is finished, and the  *)
(* entry is written with "{}".                                             *)
(***************************************************************************)
\* the spans of the written annotations: empty ones, spans that touch,
\* spans apart, spans that overlap and spans that start at the same column
DrawSpans ==
    {<<0, 0>>, <<0, 2>>, <<1, 0>>, <<1, 2>>, <<2, 1>>, <<3, 1>>}

\* an annotate_* call on the open line
draw_annotate ==
    /\ annotate(DrawSpans, LineKinds, Texts)
    /\ err' = "None" => OpenAnnotations(esb[1]) < MaxDrawn
    /\ UNCHANGED ncalls

DrawNext ==
    \/ draw_annotate
    \/ finish
    \/ Display_Entry

SpecDraw == LineInit /\ [][DrawNext]_vars

(***************************************************************************)
(* Target and TargetList.  A Target is a bundle of Arcs, so all its clones *)
(* are one index into targets.  Every statement that takes a mutex is two  *)
(* steps: lock() (and the read under it), then the write and the drop of   *)
(* the guard at the end of the statement.                                  *)
(***************************************************************************)
Threads == 1..NumThreads
Names == {"", "my-target"}
\* the MultiEntry values submitted: the kinds of their members, in order
MultiEntries ==
    {<<>>, <<"Help">>, <<"Note", "Help">>, <<"Note", "Warning">>,
     <<"Warning", "Help">>, <<"Error", "Warning">>, <<"Warning", "Error", "Note">>}

\* Target::new; shared tells whether callers hold a handle of the target
\* (it was made by Target::new, or it is in a list, which find clones from)
Target_new(name) ==
    [name |-> name, warnings |-> 0, errors |-> 0,
     warnings_lock |-> 0, errors_lock |-> 0,
     written |-> [Warning |-> 0, Error |-> 0, Other |-> 0],
     shared |-> FALSE]

\* a Target in the hands of the callers
Shared(target) == [target EXCEPT !.shared = TRUE]

\* a mutex that never makes a thread wait
Mutex_free_always(holder) == TRUE

\* Mutex::lock returns only when no thread holds the mutex
Mutex_free(holder) == holder = 0

\* derive(PartialOrd, Ord) on EntryKind: the declaration order
EntryKind_rank(kind) ==
    CASE kind = "Help" -> 0
      [] kind = "Note" -> 1
      [] kind = "Warning" -> 2
      [] kind = "Error" -> 3

\* the kind of the first member instead of the greatest
max_kind_first(entries) ==
    IF entries = <<>> THEN "Help" ELSE entries[1]

\* multi.entries.iter().map(|e| e.kind).max().unwrap_or(EntryKind::Help)
RECURSIVE max_kind(_)
max_kind(entries) ==
    IF entries = <<>> THEN "Help"
    ELSE IF Len(entries) = 1 THEN entries[1]
    ELSE LET m == max_kind(SubSeq(entries, 1, Len(entries) - 1))
             e == entries[Len(entries)]
         IN  IF EntryKind_rank(e) >= EntryKind_rank(m) THEN e ELSE m

\* a match that counts notes as warnings
counter_of_kind_notes_too(kind) ==
    CASE kind = "Error" -> "errors"
      [] kind = "Warning" -> "warnings"
      [] kind = "Note" -> "warnings"
      [] OTHER -> "none"

\* the match on the kind in log_entry / log_multi_entry: the counter the
\* submission increments
counter_of_kind(kind) ==
    CASE kind = "Error" -> "errors"
      [] kind = "Warning" -> "warnings"
      [] OTHER -> "none"

\* a find that takes the first target of the list whatever its name
TargetList_find_first(l, name) == IF l = <<>> THEN 0 ELSE l[1]

\* a find that never finds
TargetList_find_none(l, name) == 0

\* the iterator of TargetList::find: the first target of the list with that
\* name, 0 for None
TargetList_find(l, name) ==
    IF \E i \in 1..Len(l) : targets[l[i]].name = name
    THEN l[CHOOSE i \in 1..Len(l) :
               /\ targets[l[i]].name = name
               /\ \A j \in 1..(i - 1) : targets[l[j]].name # name]
    ELSE 0

\* a test that also fires on a count of 0
if_count_any(count) == count >= 0

\* the test of if_warnings / if_errors
if_count(count) == count > 0

\* every statement that takes a counter's guard writes through it
after_lock_store(op, calls) == "store"

\* what a statement does with the guard of a counter: log_entry and
\* log_multi_entry (also those a callback makes) "+= 1" through it,
\* warning_count() and error_count() copy the value out
after_lock(op, calls) ==
    IF op \in {"log_entry", "log_multi_entry", "log_record"} \/ calls > 0
    THEN "store" ELSE "unlock"

\* a statement that takes one away
add_assign_one_sub(val) == val - 1

\* "+= 1" on the usize behind the guard
add_assign_one(val) == val + 1

\* a failed write that takes the submission's increment back
io_error_rollback(ts, g, ctr) ==
    IF ctr = "errors" THEN [ts EXCEPT ![g].errors = @ - 1]
    ELSE IF ctr = "warnings" THEN [ts EXCEPT ![g].warnings = @ - 1]
    ELSE ts

\* multi_progress.println(..)? with an io error: the "?" returns
\* Err(err.into()) and no statement touches the target
io_error(ts, g, ctr) == ts

\* log::Level, and its discriminants (LevelFilter::Debug is 4)
Levels == {"Error", "Warn", "Info", "Debug", "Trace"}
Level_rank(level) ==
    CASE level = "Error" -> 1
      [] level = "Warn" -> 2
      [] level = "Info" -> 3
      [] level = "Debug" -> 4
      [] level = "Trace" -> 5

\* Log::enabled: metadata.level() < LevelFilter::Debug
enabled(level) == Level_rank(level) < 4

\* the match of Entry::log: the macro, so the level, for each kind
Entry_log_level(kind) ==
    CASE kind = "Error" -> "Error"
      [] kind = "Warning" -> "Warn"
      [] kind = "Note" -> "Info"
      [] kind = "Help" -> "Debug"

\* the match on record.level() in log_record: the counter it increments
counter_of_level(level) ==
    CASE level = "Error" -> "errors"
      [] level = "Warn" -> "warnings"
      [] OTHER -> "none"

\* the severity a record of that level is tallied under
KindOfLevel(level) ==
    CASE level = "Error" -> "Error"
      [] level = "Warn" -> "Warning"
      [] level = "Info" -> "Note"
      [] OTHER -> "Help"

\* a count read that keeps the guard while the callback runs
guard_kept(t) == t

\* the holder of a counter's mutex once warning_count() / error_count()
\* has returned: the guard is a temporary of its only statement
guard_dropped(t) == 0

\* a thread that is in no call
IdleThread ==
    [pc |-> "idle", op |-> "none", tg |-> 0, cur |-> 0, kind |-> "Help",
     entries |-> <<>>, ctr |-> "none", val |-> 0, count |-> 0,
     cbtg |-> 0, cbkind |-> "Help", calls |-> 0, arg |-> 0, cbres |-> "None",
     name |-> "", present |-> FALSE,
     res |-> "None", rval |-> 0, rname |-> "", dw |-> 0, de |-> 0,
     via |-> "none", sub |-> "none", level |-> "none", wrote |-> FALSE,
     cbop |-> "log_entry"]

Allocated == 1..Len(targets)
\* the targets the threads hold handles of
Handles == {g \in Allocated : targets[g].shared}

\* the value and the holder of counter ctr of target g
Counter(g, ctr) == IF ctr = "errors" THEN targets[g].errors ELSE targets[g].warnings
Holder(g, ctr) ==
    IF ctr = "errors" THEN targets[g].errors_lock ELSE targets[g].warnings_lock

\* the names of the targets of the list
ListNames == {targets[list[i]].name : i \in 1..Len(list)}

\* the class under which a written submission of that kind is tallied
WrittenAs(kind) ==
    IF kind \in {"Warning", "Error"} THEN kind ELSE "Other"

\* the tally of submissions started, after one more of that kind on g
Submit(g, kind) ==
    IF kind = "Warning" THEN [submitted EXCEPT ![g].w = @ + 1]
    ELSE IF kind = "Error" THEN [submitted EXCEPT ![g].e = @ + 1]
    ELSE submitted

\* the greatest severity among the members, by cases
WorstOf(entries) ==
    IF \E i \in 1..Len(entries) : entries[i] = "Error" THEN "Error"
    ELSE IF \E i \in 1..Len(entries) : entries[i] = "Warning" THEN "Warning"
    ELSE IF \E i \in 1..Len(entries) : entries[i] = "Note" THEN "Note"
    ELSE "Help"

\* a submission that writes before it counts
FirstPc_write(kind) == "write"

\* where a submission of that kind starts: at the counter or at the write
FirstPc(kind) == IF counter_of_kind(kind) = "none" THEN "write" ELSE "lock"

\* the builder side, unused by the target specifications
NoBuilder ==
    /\ NoRender
    /\ made = NoCalls
    /\ phase = "entry"
    /\ entry = Entry_new("Error", "msg")
    /\ entry0 = entry
    /\ esb = <<>>
    /\ err = "None"
    /\ partial = <<>>
    /\ ncalls = 0

\* two targets made with Target::new, as in the examples of if_warnings
TargetsInit ==
    /\ NoBuilder
    /\ targets = <<Shared(Target_new("my-target")), Shared(Target_new(""))>>
    /\ list = <<>>
    /\ list_lock = 0
    /\ th = [t \in Threads |-> IdleThread]
    /\ nops = 0
    /\ submitted = [g \in 1..2 |-> [w |-> 0, e |-> 0]]

\* a TargetList after create_target("my-target"), as in its examples
RegistryInit ==
    /\ NoBuilder
    /\ targets = <<Shared(Target_new("my-target"))>>
    /\ list = <<1>>
    /\ list_lock = 0
    /\ th = [t \in Threads |-> IdleThread]
    /\ nops = 0
    /\ submitted = <<[w |-> 0, e |-> 0]>>

CanBegin(t) == th[t].pc = "idle" /\ nops < MaxOps

\* entry.log_to_target(&target): Target::log_entry
BeginLogEntry(t) ==
    /\ CanBegin(t)
    /\ \E g \in Handles, kind \in EntryKinds :
          /\ th' = [th EXCEPT ![t] = [IdleThread EXCEPT
                        !.op = "log_entry", !.tg = g, !.cur = g, !.kind = kind,
                        !.ctr = counter_of_kind(kind), !.pc = FirstPc(kind)]]
          /\ submitted' = Submit(g, kind)
    /\ nops' = nops + 1
    /\ UNCHANGED <<targets, list, list_lock>>
    /\ UNCHANGED <<bvars, rvars>>

\* multi.log_to_target(&target): Target::log_multi_entry up to the match
BeginLogMultiEntry(t) ==
    /\ CanBegin(t)
    /\ \E g \in Handles, entries \in MultiEntries :
          LET kind == max_kind(entries) IN
          /\ th' = [th EXCEPT ![t] = [IdleThread EXCEPT
                        !.op = "log_multi_entry", !.tg = g, !.cur = g,
                        !.entries = entries, !.kind = kind,
                        !.ctr = counter_of_kind(kind), !.pc = FirstPc(kind)]]
          /\ submitted' = Submit(g, WorstOf(entries))
    /\ nops' = nops + 1
    /\ UNCHANGED <<targets, list, list_lock>>
    /\ UNCHANGED <<bvars, rvars>>

\* task.log_to_target(&target): Target::log_inline_entry
BeginLogTask(t) ==
    /\ CanBegin(t)
    /\ \E g \in Handles :
          th' = [th EXCEPT ![t] = [IdleThread EXCEPT
                    !.op = "log_inline_entry", !.tg = g, !.cur = g,
                    !.kind = "Help", !.pc = "write"]]
    /\ nops' = nops + 1
    /\ UNCHANGED <<targets, list, list_lock, submitted>>
    /\ UNCHANGED <<bvars, rvars>>

\* target.warning_count() / target.error_count()
BeginCount(t) ==
    /\ CanBegin(t)
    /\ \E g \in Handles, ctr \in {"warnings", "errors"} :
          th' = [th EXCEPT ![t] = [IdleThread EXCEPT
                    !.op = IF ctr = "warnings" THEN "warning_count" ELSE "error_count",
                    !.tg = g, !.cur = g, !.ctr = ctr, !.pc = "lock"]]
    /\ nops' = nops + 1
    /\ UNCHANGED <<targets, list, list_lock, submitted>>
    /\ UNCHANGED <<bvars, rvars>>

\* target.if_warnings(cb) / target.if_errors(cb), where cb submits a
\* summary entry of the same severity to the target cbtg
BeginIf(t) ==
    /\ CanBegin(t)
    /\ \E g \in Handles, cbtg \in Handles, ctr \in {"warnings", "errors"} :
          th' = [th EXCEPT ![t] = [IdleThread EXCEPT
                    !.op = IF ctr = "warnings" THEN "if_warnings" ELSE "if_errors",
                    !.tg = g, !.cur = g, !.ctr = ctr, !.cbtg = cbtg,
                    !.cbkind = IF ctr = "warnings" THEN "Warning" ELSE "Error",
                    !.pc = "lock"]]
    /\ nops' = nops + 1
    /\ UNCHANGED <<targets, list, list_lock, submitted>>
    /\ UNCHANGED <<bvars, rvars>>

\* self.warnings.lock() / self.errors.lock(), and the read of the counter
\* under the guard
CounterLock(t) ==
    /\ th[t].pc = "lock"
    /\ LET g == th[t].cur
           ctr == th[t].ctr
       IN  /\ Mutex_free(Holder(g, ctr))
           /\ targets' = IF ctr = "errors"
                         THEN [targets EXCEPT ![g].errors_lock = t]
                         ELSE [targets EXCEPT ![g].warnings_lock = t]
           /\ th' = [th EXCEPT ![t].val = Counter(g, ctr),
                               ![t].pc = after_lock(th[t].op, th[t].calls)]
    /\ UNCHANGED <<list, list_lock, nops, submitted>>
    /\ UNCHANGED <<bvars, rvars>>

\* "+= 1" through the guard, which is dropped at the end of the statement
CounterStore(t) ==
    /\ th[t].pc = "store"
    /\ LET g == th[t].cur
           ctr == th[t].ctr
       IN  /\ targets' = IF ctr = "errors"
                         THEN [targets EXCEPT ![g].errors = add_assign_one(th[t].val),
                                              ![g].errors_lock = 0]
                         ELSE [targets EXCEPT ![g].warnings = add_assign_one(th[t].val),
                                              ![g].warnings_lock = 0]
           /\ th' = [th EXCEPT
                        ![t].dw = @ + (targets'[g].warnings - targets[g].warnings),
                        ![t].de = @ + (targets'[g].errors - targets[g].errors),
                        ![t].pc = "write"]
    /\ UNCHANGED <<list, list_lock, nops, submitted>>
    /\ UNCHANGED <<bvars, rvars>>

\* the end of warning_count() / error_count(): the guard is dropped and the
\* value returned; if_warnings / if_errors test it and call the callback,
\* which starts its own log_entry on cbtg, or its own find / add_target
CounterUnlock(t) ==
    /\ th[t].pc = "unlock"
    /\ LET g == th[t].cur
           ctr == th[t].ctr
           count == th[t].val
       IN  /\ targets' = IF ctr = "errors"
                         THEN [targets EXCEPT ![g].errors_lock = guard_dropped(t)]
                         ELSE [targets EXCEPT ![g].warnings_lock = guard_dropped(t)]
           /\ IF th[t].op \in {"warning_count", "error_count"}
              THEN /\ th' = [th EXCEPT ![t].pc = "done", ![t].res = "Ok",
                                       ![t].rval = count]
                   /\ UNCHANGED submitted
              ELSE IF if_count(count) /\ th[t].cbop # "log_entry"
              THEN /\ th' = [th EXCEPT ![t].count = count, ![t].calls = @ + 1,
                                       ![t].arg = count, ![t].tg = th[t].cbtg,
                                       ![t].name = targets[th[t].cbtg].name,
                                       ![t].present =
                                           targets[th[t].cbtg].name \in ListNames,
                                       ![t].pc = "find_lock"]
                   /\ UNCHANGED submitted
              ELSE IF if_count(count)
              THEN /\ th' = [th EXCEPT ![t].count = count, ![t].calls = @ + 1,
                                       ![t].arg = count, ![t].cur = th[t].cbtg,
                                       ![t].kind = th[t].cbkind,
                                       ![t].ctr = counter_of_kind(th[t].cbkind),
                                       ![t].pc = FirstPc(th[t].cbkind)]
                   /\ submitted' = Submit(th[t].cbtg, th[t].cbkind)
              ELSE /\ th' = [th EXCEPT ![t].count = count, ![t].pc = "done",
                                       ![t].res = "Ok"]
                   /\ UNCHANGED submitted
    /\ UNCHANGED <<list, list_lock, nops>>
    /\ UNCHANGED <<bvars, rvars>>

\* eprint!(..), or multi_progress.println(..)? with the feature indicatif,
\* which can fail with an io error; the call returns, and a callback's
\* result is the result of if_warnings / if_errors; Log::log panics on
\* the error (.expect)
SinkWrite(t) ==
    /\ th[t].pc = "write"
    /\ \E io_ok \in BOOLEAN :
          LET g == th[t].cur
              r == IF th[t].via = "log"
                   THEN (IF io_ok THEN "None" ELSE "Panic")
                   ELSE (IF io_ok THEN "Ok" ELSE "IoError")
          IN  /\ targets' = IF io_ok
                            THEN [targets EXCEPT
                                     ![g].written[WrittenAs(th[t].kind)] = @ + 1]
                            ELSE io_error(targets, g, th[t].ctr)
              /\ th' = [th EXCEPT ![t].pc = "done", ![t].res = r,
                                  ![t].wrote = io_ok,
                                  ![t].cbres = IF th[t].calls > 0 THEN r ELSE @]
    /\ UNCHANGED <<list, list_lock, nops, submitted>>
    /\ UNCHANGED <<bvars, rvars>>

\* the caller takes the result; the thread is free for its next call
Return(t) ==
    /\ th[t].pc = "done"
    /\ th' = [th EXCEPT ![t] = IdleThread]
    /\ UNCHANGED <<targets, list, list_lock, nops, submitted>>
    /\ UNCHANGED <<bvars, rvars>>

\* Target::new(name)
NewTarget(t) ==
    /\ CanBegin(t)
    /\ Len(targets) < MaxTargets
    /\ \E name \in Names : targets' = Append(targets, Shared(Target_new(name)))
    /\ submitted' = Append(submitted, [w |-> 0, e |-> 0])
    /\ nops' = nops + 1
    /\ UNCHANGED <<list, list_lock, th>>
    /\ UNCHANGED <<bvars, rvars>>

\* list.find(name)
BeginFind(t) ==
    /\ CanBegin(t)
    /\ \E name \in Names :
          th' = [th EXCEPT ![t] = [IdleThread EXCEPT
                    !.op = "find", !.name = name, !.pc = "find_lock"]]
    /\ nops' = nops + 1
    /\ UNCHANGED <<targets, list, list_lock, submitted>>
    /\ UNCHANGED <<bvars, rvars>>

\* list.add_target(target) with a Target made earlier (or a clone of one)
BeginAddTarget(t) ==
    /\ CanBegin(t)
    /\ \E g \in Handles :
          th' = [th EXCEPT ![t] = [IdleThread EXCEPT
                    !.op = "add_target", !.tg = g, !.name = targets[g].name,
                    !.present = targets[g].name \in ListNames,
                    !.pc = "find_lock"]]
    /\ nops' = nops + 1
    /\ UNCHANGED <<targets, list, list_lock, submitted>>
    /\ UNCHANGED <<bvars, rvars>>

\* list.create_target(name): Target::new(name), then add_target of a clone
BeginCreateTarget(t) ==
    /\ CanBegin(t)
    /\ Len(targets) < MaxTargets
    /\ \E name \in Names :
          /\ targets' = Append(targets, Target_new(name))
          /\ th' = [th EXCEPT ![t] = [IdleThread EXCEPT
                        !.op = "create_target", !.tg = Len(targets) + 1,
                        !.name = name, !.present = name \in ListNames,
                        !.pc = "find_lock"]]
    /\ submitted' = Append(submitted, [w |-> 0, e |-> 0])
    /\ nops' = nops + 1
    /\ UNCHANGED <<list, list_lock>>
    /\ UNCHANGED <<bvars, rvars>>

\* TargetList::find: self.list.lock() and the search under the guard
FindLock(t) ==
    /\ th[t].pc = "find_lock"
    /\ Mutex_free(list_lock)
    /\ list_lock' = t
    /\ th' = [th EXCEPT ![t].val = TargetList_find(list, th[t].name),
                        ![t].pc = "find_unlock"]
    /\ UNCHANGED <<targets, list, nops, submitted>>
    /\ UNCHANGED <<bvars, rvars>>

\* the end of the statement of find: the guard is dropped; find returns the
\* clone, add_target returns Err(TargetAlreadyExists(other.name)) or goes on;
\* Log::log and log_to_prologue_logger call the target they found, and
\* return when they found none
FindUnlock(t) ==
    /\ th[t].pc = "find_unlock"
    /\ list_lock' = 0
    /\ th' = IF th[t].op = "find" \/ (th[t].calls > 0 /\ th[t].cbop = "find")
             THEN [th EXCEPT ![t].pc = "done", ![t].res = "Ok",
                             ![t].rval = th[t].val]
             ELSE IF th[t].via \in {"log", "logger"}
             THEN IF th[t].val = 0
                  THEN [th EXCEPT ![t].pc = "done",
                                  ![t].res = IF th[t].via = "log" THEN "None" ELSE "Ok"]
                  ELSE [th EXCEPT ![t].op = th[t].sub, ![t].tg = th[t].val,
                                  ![t].cur = th[t].val,
                                  ![t].pc = IF th[t].ctr = "none" THEN "write" ELSE "lock"]
             ELSE IF th[t].val # 0
             THEN [th EXCEPT ![t].pc = "done", ![t].res = "TargetAlreadyExists",
                             ![t].rname = targets[th[t].val].name]
             ELSE [th EXCEPT ![t].pc = "push_lock"]
    /\ submitted' = IF th[t].via \in {"log", "logger"} /\ th[t].val # 0
                    THEN Submit(th[t].val, WrittenAs(th[t].kind))
                    ELSE submitted
    /\ UNCHANGED <<targets, list, nops>>
    /\ UNCHANGED <<bvars, rvars>>

\* add_target, else branch: self.list.lock()
PushLock(t) ==
    /\ th[t].pc = "push_lock"
    /\ Mutex_free(list_lock)
    /\ list_lock' = t
    /\ th' = [th EXCEPT ![t].pc = "push"]
    /\ UNCHANGED <<targets, list, nops, submitted>>
    /\ UNCHANGED <<bvars, rvars>>

\* .push(target), the drop of the guard and Ok
Push(t) ==
    /\ th[t].pc = "push"
    /\ list' = Append(list, th[t].tg)
    /\ list_lock' = 0
    /\ targets' = [targets EXCEPT ![th[t].tg] = Shared(@)]
    /\ th' = [th EXCEPT ![t].pc = "done", ![t].res = "Ok", ![t].rval = th[t].tg]
    /\ UNCHANGED <<nops, submitted>>
    /\ UNCHANGED <<bvars, rvars>>

\* a PrologueLogger whose list holds "my-target", and a Target made with
\* Target::new("") that is in no list
LoggerInit ==
    /\ NoBuilder
    /\ targets = <<Shared(Target_new("my-target")), Shared(Target_new(""))>>
    /\ list = <<1>>
    /\ list_lock = 0
    /\ th = [t \in Threads |-> IdleThread]
    /\ nops = 0
    /\ submitted = [g \in 1..2 |-> [w |-> 0, e |-> 0]]

\* the start of Log::log(record) on a thread: the test of enabled, then
\* find_target(record.target())
Log_log(t, level, kind, name) ==
    th' = [th EXCEPT ![t] =
              IF enabled(level)
              THEN [IdleThread EXCEPT
                       !.op = "log", !.via = "log", !.sub = "log_record",
                       !.level = level, !.kind = kind, !.name = name,
                       !.ctr = counter_of_level(level), !.pc = "find_lock"]
              ELSE [IdleThread EXCEPT
                       !.op = "log", !.via = "log", !.sub = "log_record",
                       !.level = level, !.kind = kind, !.name = name,
                       !.pc = "done"]]

\* entry.log(name): the macro of the entry's kind hands the record to the
\* logger
BeginEntryLog(t) ==
    /\ CanBegin(t)
    /\ \E kind \in EntryKinds, name \in Names :
          Log_log(t, Entry_log_level(kind), kind, name)
    /\ nops' = nops + 1
    /\ UNCHANGED <<targets, list, list_lock, submitted>>
    /\ UNCHANGED <<bvars, rvars>>

\* a record of any level arrives at the logger: Log::log(&record)
BeginLogRecord(t) ==
    /\ CanBegin(t)
    /\ \E level \in Levels, name \in Names :
          Log_log(t, level, KindOfLevel(level), name)
    /\ nops' = nops + 1
    /\ UNCHANGED <<targets, list, list_lock, submitted>>
    /\ UNCHANGED <<bvars, rvars>>

\* entry.log_to_prologue_logger(name, &logger): logger.target_list.find
BeginEntryToLogger(t) ==
    /\ CanBegin(t)
    /\ \E kind \in EntryKinds, name \in Names :
          th' = [th EXCEPT ![t] = [IdleThread EXCEPT
                    !.op = "log_to_prologue_logger", !.via = "logger",
                    !.sub = "log_entry", !.kind = kind, !.name = name,
                    !.ctr = counter_of_kind(kind), !.pc = "find_lock"]]
    /\ nops' = nops + 1
    /\ UNCHANGED <<targets, list, list_lock, submitted>>
    /\ UNCHANGED <<bvars, rvars>>

\* the groups submitted through the logger: an empty one, one whose worst
\* member is a Warning, one whose worst member is an Error
LoggerGroups == {<<>>, <<"Note", "Warning">>, <<"Warning", "Error", "Note">>}

\* multi.log_to_prologue_logger(name, &logger)
BeginMultiToLogger(t) ==
    /\ CanBegin(t)
    /\ \E entries \in LoggerGroups, name \in Names :
          LET kind == max_kind(entries) IN
          th' = [th EXCEPT ![t] = [IdleThread EXCEPT
                    !.op = "log_to_prologue_logger", !.via = "logger",
                    !.sub = "log_multi_entry", !.entries = entries,
                    !.kind = kind, !.name = name,
                    !.ctr = counter_of_kind(kind), !.pc = "find_lock"]]
    /\ nops' = nops + 1
    /\ UNCHANGED <<targets, list, list_lock, submitted>>
    /\ UNCHANGED <<bvars, rvars>>

\* task.log_to_prologue_logger(name, &logger)
BeginTaskToLogger(t) ==
    /\ CanBegin(t)
    /\ \E name \in Names :
          th' = [th EXCEPT ![t] = [IdleThread EXCEPT
                    !.op = "log_to_prologue_logger", !.via = "logger",
                    !.sub = "log_inline_entry", !.kind = "Help", !.name = name,
                    !.pc = "find_lock"]]
    /\ nops' = nops + 1
    /\ UNCHANGED <<targets, list, list_lock, submitted>>
    /\ UNCHANGED <<bvars, rvars>>

\* threads logging through the facade and through the logger's list
LoggerNext ==
    \/ \E t \in Threads : BeginEntryLog(t)
    \/ \E t \in Threads : BeginLogRecord(t)
    \/ \E t \in Threads : BeginEntryToLogger(t)
    \/ \E t \in Threads : BeginMultiToLogger(t)
    \/ \E t \in Threads : BeginTaskToLogger(t)
    \/ \E t \in Threads : FindLock(t)
    \/ \E t \in Threads : FindUnlock(t)
    \/ \E t \in Threads : CounterLock(t)
    \/ \E t \in Threads : CounterStore(t)
    \/ \E t \in Threads : SinkWrite(t)
    \/ \E t \in Threads : Return(t)

SpecLogger == LoggerInit /\ [][LoggerNext]_vars

\* target.if_warnings(cb) / target.if_errors(cb), where cb calls a
\* registry operation: find of the name of cbtg, or add_target of cbtg
BeginIfRegistry(t) ==
    /\ CanBegin(t)
    /\ \E g \in Handles, cbtg \in Handles, ctr \in {"warnings", "errors"},
          cbop \in {"find", "add_target"} :
          th' = [th EXCEPT ![t] = [IdleThread EXCEPT
                    !.op = IF ctr = "warnings" THEN "if_warnings" ELSE "if_errors",
                    !.tg = g, !.cur = g, !.ctr = ctr, !.cbtg = cbtg,
                    !.cbop = cbop, !.pc = "lock"]]
    /\ nops' = nops + 1
    /\ UNCHANGED <<targets, list, list_lock, submitted>>
    /\ UNCHANGED <<bvars, rvars>>

\* a list that holds "my-target", to which one Warning has been written,
\* and a Target made with Target::new(""), to which one Error has been
\* written
ConcurrentInit ==
    /\ NoBuilder
    /\ targets = <<[Shared(Target_new("my-target")) EXCEPT
                       !.warnings = 1, !.written.Warning = 1],
                   [Shared(Target_new("")) EXCEPT
                       !.errors = 1, !.written.Error = 1]>>
    /\ list = <<1>>
    /\ list_lock = 0
    /\ th = [t \in Threads |-> IdleThread]
    /\ nops = 0
    /\ submitted = <<[w |-> 1, e |-> 0], [w |-> 0, e |-> 1]>>

\* every operation of Target and TargetList, from every thread
ConcurrentNext ==
    \/ \E t \in Threads : BeginLogEntry(t)
    \/ \E t \in Threads : BeginCount(t)
    \/ \E t \in Threads : BeginIf(t)
    \/ \E t \in Threads : BeginIfRegistry(t)
    \/ \E t \in Threads : BeginFind(t)
    \/ \E t \in Threads : BeginAddTarget(t)
    \/ \E t \in Threads : BeginCreateTarget(t)
    \/ \E t \in Threads : CounterLock(t)
    \/ \E t \in Threads : CounterStore(t)
    \/ \E t \in Threads : CounterUnlock(t)
    \/ \E t \in Threads : SinkWrite(t)
    \/ \E t \in Threads : FindLock(t)
    \/ \E t \in Threads : FindUnlock(t)
    \/ \E t \in Threads : PushLock(t)
    \/ \E t \in Threads : Push(t)
    \/ \E t \in Threads : Return(t)

\* the steps of a call that thread t has started
ThreadStep(t) ==
    \/ CounterLock(t)
    \/ CounterStore(t)
    \/ CounterUnlock(t)
    \/ SinkWrite(t)
    \/ FindLock(t)
    \/ FindUnlock(t)
    \/ PushLock(t)
    \/ Push(t)

\* the scheduler runs every thread that can take a step
SpecConcurrent ==
    /\ ConcurrentInit
    /\ [][ConcurrentNext]_vars
    /\ \A t \in Threads : WF_vars(ThreadStep(t))

\* threads submitting entries, groups and tasks to two targets
TargetsNext ==
    \/ \E t \in Threads : BeginLogEntry(t)
    \/ \E t \in Threads : BeginLogMultiEntry(t)
    \/ \E t \in Threads : BeginLogTask(t)
    \/ \E t \in Threads : CounterLock(t)
    \/ \E t \in Threads : CounterStore(t)
    \/ \E t \in Threads : SinkWrite(t)
    \/ \E t \in Threads : Return(t)

SpecTargets == TargetsInit /\ [][TargetsNext]_vars

\* threads submitting entries to two targets, reading their counters and
\* summarising them with if_warnings / if_errors
SummaryNext ==
    \/ \E t \in Threads : BeginLogEntry(t)
    \/ \E t \in Threads : BeginCount(t)
    \/ \E t \in Threads : BeginIf(t)
    \/ \E t \in Threads : CounterLock(t)
    \/ \E t \in Threads : CounterStore(t)
    \/ \E t \in Threads : CounterUnlock(t)
    \/ \E t \in Threads : SinkWrite(t)
    \/ \E t \in Threads : Return(t)

SpecSummary == TargetsInit /\ [][SummaryNext]_vars

\* threads sharing one TargetList
RegistryNext ==
    \/ \E t \in Threads : NewTarget(t)
    \/ \E t \in Threads : BeginFind(t)
    \/ \E t \in Threads : BeginAddTarget(t)
    \/ \E t \in Threads : BeginCreateTarget(t)
    \/ \E t \in Threads : FindLock(t)
    \/ \E t \in Threads : FindUnlock(t)
    \/ \E t \in Threads : PushLock(t)
    \/ \E t \in Threads : Push(t)
    \/ \E t \in Threads : BeginLogEntry(t)
    \/ \E t \in Threads : CounterLock(t)
    \/ \E t \in Threads : CounterStore(t)
    \/ \E t \in Threads : SinkWrite(t)
    \/ \E t \in Threads : Return(t)

SpecRegistry == RegistryInit /\ [][RegistryNext]_vars

(***************************************************************************)
(* Properties of the annotation engine and of the builder.                 *)
(***************************************************************************)
\* the half-open spans [position, position + len) of a and b do not
\* intersect: one ends at or before the start of the other
Disjoint(a, b) ==
    \/ a.position + a.len <= b.position
    \/ b.position + b.len <= a.position

\* the annotations of the open line of the builder in hand
OpenLineAnnotations ==
    IF esb # <<>> /\ esb[1].source_line # <<>>
    THEN esb[1].source_line[1].annotations
    ELSE <<>>

\* C2: after any sequence of annotate calls, accepted or rejected, on one
\* source line, every two annotations stored on the line have disjoint
\* half-open spans (spans that touch are allowed).
C2_SpansDisjoint ==
    \A i, j \in 1..Len(OpenLineAnnotations) :
        i < j => Disjoint(OpenLineAnnotations[i].reference,
                          OpenLineAnnotations[j].reference)

\* a line holding two annotations that touch, after a rejected call
C2_Witness ==
    /\ err = "OverlappingAnnotation"
    /\ Len(OpenLineAnnotations) = 2
    /\ OpenLineAnnotations[1].reference.position
         + OpenLineAnnotations[1].reference.len
       = OpenLineAnnotations[2].reference.position
    /\ OpenLineAnnotations[1].reference.len > 0

\* C3: in every state of a builder chain and for every annotate_* input
\* whose span intersects an annotation of the current line, the call
\* returns OverlappingAnnotation and the error's partial configuration is
\* the builder as it was before the call (lines, annotations, notes).
C3_RejectedLeavesBuilder ==
    (phase = "building" /\ esb[1].source_line # <<>>) =>
        \A kind \in EntryKinds, span \in AllSpans, text \in Texts :
            (\E i \in 1..Len(OpenLineAnnotations) :
                ~Disjoint(OpenLineAnnotations[i].reference,
                          AnnotationReference(span[1], span[2])))
            => LET r == EntrySourceBuilder_annotate(esb[1], kind, span[1],
                                                    span[2], text)
               IN  /\ r.kind = "OverlappingAnnotation"
                   /\ r.partial = <<esb[1]>>

\* an overlapping annotate_* call was just rejected on a builder that
\* holds a flushed line, an annotated current line and a note
C3_Witness ==
    /\ phase = "building"
    /\ err = "OverlappingAnnotation"
    /\ partial = esb
    /\ Len(esb[1].source.lines) > 0
    /\ Len(esb[1].source.notes) > 0
    /\ Len(OpenLineAnnotations) > 0

\* C4: on every line reached by successful inserts and for every new span
\* of length >= 1, annotate succeeds if and only if the new span is
\* disjoint from every span already on the line.
C4_AcceptIffDisjoint ==
    (esb # <<>> /\ esb[1].source_line # <<>>) =>
        \A span \in AllSpans :
            span[2] >= 1 =>
                LET new == AnnotationReference(span[1], span[2]) IN
                SourceLine_annotate(esb[1].source_line[1], "Error", new, "x").ok
                <=> \A i \in 1..Len(OpenLineAnnotations) :
                        Disjoint(OpenLineAnnotations[i].reference, new)

\* a line with two annotations and a gap between them: a new span in the
\* gap is accepted after one "continue" and one "break" of the scan
C4_Witness ==
    /\ Len(OpenLineAnnotations) = 2
    /\ OpenLineAnnotations[1].reference.position
         + OpenLineAnnotations[1].reference.len
       < OpenLineAnnotations[2].reference.position
    /\ OpenLineAnnotations[1].reference.len > 0
    /\ OpenLineAnnotations[2].reference.len > 0

\* C5: after any sequence of successful annotate calls, in any order of
\* positions, the annotations of the line are in ascending position order.
C5_SortedByPosition ==
    \A i, j \in 1..Len(OpenLineAnnotations) :
        i < j => OpenLineAnnotations[i].reference.position
                 <= OpenLineAnnotations[j].reference.position

\* two annotations at different positions on the line
C5_Witness ==
    /\ Len(OpenLineAnnotations) = 2
    /\ OpenLineAnnotations[1].reference.position
       # OpenLineAnnotations[2].reference.position

(***************************************************************************)
(* Properties of Target and TargetList.                                    *)
(***************************************************************************)
\* every call has returned
AllReturned == \A t \in Threads : th[t].pc \in {"idle", "done"}

\* C1: once all submissions of all threads have returned, each target's
\* warning_count is the number of Warning submissions made to it and its
\* error_count the number of Error submissions, whatever the interleaving.
C1_NoLostIncrement ==
    AllReturned =>
        \A g \in Allocated :
            /\ targets[g].warnings = submitted[g].w
            /\ targets[g].errors = submitted[g].e

\* all the calls of the run went to one target as counted submissions of
\* one kind, and have returned
C1_Witness ==
    /\ AllReturned
    /\ \E g \in Allocated :
          targets[g].warnings = MaxOps \/ targets[g].errors = MaxOps

\* C6: the list never holds two targets with the same name, and of the
\* calls in flight with one name at most one returns Ok.
C6_UniqueNames ==
    /\ \A i, j \in 1..Len(list) :
          i < j => targets[list[i]].name # targets[list[j]].name
    /\ \A t, u \in Threads :
          (/\ t # u
           /\ th[t].op \in {"add_target", "create_target"}
           /\ th[u].op \in {"add_target", "create_target"}
           /\ th[t].name = th[u].name
           /\ ~th[t].present /\ ~th[u].present
           /\ th[t].pc = "done" /\ th[u].pc = "done")
          => ~(th[t].res = "Ok" /\ th[u].res = "Ok")

\* the steps of an add_target / create_target call made with a name that
\* was in the list change neither the list nor any target
C7_Frame ==
    \A t \in Threads :
        (/\ th[t].op \in {"add_target", "create_target"}
         /\ th[t].present
         /\ th'[t] # th[t])
        => /\ list' = list
           /\ targets' = targets

\* such a call returns TargetAlreadyExists with that name
C7_Result ==
    \A t \in Threads :
        (/\ th[t].op \in {"add_target", "create_target"}
         /\ th[t].present
         /\ th[t].pc = "done")
        => /\ th[t].res = "TargetAlreadyExists"
           /\ th[t].rname = th[t].name

\* C7: create_target or add_target with a name already in the list returns
\* TargetAlreadyExists carrying that name and leaves the list and the
\* counters of the registered targets as they were.
C7_ConflictRejected == []C7_Result /\ [][C7_Frame]_vars

\* create_target was refused for the name of a registered target that has
\* received a warning
C7_Witness ==
    \E t \in Threads :
        /\ th[t].op = "create_target"
        /\ th[t].pc = "done"
        /\ th[t].res = "TargetAlreadyExists"
        /\ th[t].rname = "my-target"
        /\ list = <<1>>
        /\ targets[1].warnings = 1

\* C8: one Entry submitted raises error_count by exactly 1 and leaves
\* warning_count alone when it is an Error, raises warning_count by exactly
\* 1 and leaves error_count alone when it is a Warning, and changes neither
\* when it is a Note or a Help; a Task changes neither.
C8_EntryCounterEffect ==
    \A t \in Threads :
        th[t].pc = "done" =>
            /\ (th[t].op = "log_entry" /\ th[t].kind = "Error")
                   => (th[t].de = 1 /\ th[t].dw = 0)
            /\ (th[t].op = "log_entry" /\ th[t].kind = "Warning")
                   => (th[t].dw = 1 /\ th[t].de = 0)
            /\ (th[t].op = "log_entry" /\ th[t].kind \in {"Note", "Help"})
                   => (th[t].dw = 0 /\ th[t].de = 0)
            /\ th[t].op = "log_inline_entry" => (th[t].dw = 0 /\ th[t].de = 0)

\* an Error entry and a Note entry have both been submitted
C8_Witness ==
    \E t, u \in Threads :
        /\ th[t].pc = "done" /\ th[t].op = "log_entry" /\ th[t].kind = "Error"
        /\ th[t].de = 1
        /\ th[u].pc = "done" /\ th[u].op = "log_entry" /\ th[u].kind = "Note"

\* C9: one MultiEntry submitted makes at most one increment: error_count
\* by 1 when some member is an Error, warning_count by 1 when none is an
\* Error and some member is a Warning, none otherwise (empty group too).
C9_MultiCounterEffect ==
    \A t \in Threads :
        (th[t].pc = "done" /\ th[t].op = "log_multi_entry") =>
            LET has(k) == \E i \in 1..Len(th[t].entries) : th[t].entries[i] = k IN
            /\ th[t].dw + th[t].de <= 1
            /\ has("Error") => (th[t].de = 1 /\ th[t].dw = 0)
            /\ (~has("Error") /\ has("Warning")) => (th[t].dw = 1 /\ th[t].de = 0)
            /\ (~has("Error") /\ ~has("Warning")) => (th[t].dw = 0 /\ th[t].de = 0)

\* a group of three members whose greatest is not the first was submitted,
\* and so was the empty group
C9_Witness ==
    \E t, u \in Threads :
        /\ th[t].pc = "done" /\ th[t].op = "log_multi_entry"
        /\ th[t].entries = <<"Warning", "Error", "Note">> /\ th[t].de = 1
        /\ th[u].pc = "done" /\ th[u].op = "log_multi_entry"
        /\ th[u].entries = <<>>

\* the callback runs at most once; after the call it has run once, with
\* the count read, when that count was not 0, and its result is the result
\* of the call; it has not run, and the call is Ok, when the count was 0
C10_Calls ==
    \A t \in Threads :
        th[t].op \in {"if_warnings", "if_errors"} =>
            /\ th[t].calls <= 1
            /\ th[t].pc = "done" =>
                  /\ th[t].count > 0 =>
                        (th[t].calls = 1 /\ th[t].arg = th[t].count
                         /\ th[t].res = th[t].cbres)
                  /\ th[t].count = 0 => (th[t].calls = 0 /\ th[t].res = "Ok")

\* the count tested is the target's own warning count (error count for
\* if_errors) at the time it is read
C10_Read ==
    \A t \in Threads :
        (/\ th[t].op \in {"if_warnings", "if_errors"}
         /\ th[t].pc = "unlock"
         /\ th'[t].pc # "unlock")
        => th'[t].count = IF th[t].op = "if_warnings"
                          THEN targets[th[t].tg].warnings
                          ELSE targets[th[t].tg].errors

\* C10: if_warnings(cb) calls cb exactly once, with the target's warning
\* count, when that count is greater than 0 as read, and returns cb's
\* result; it does not call cb and returns Ok when the count is 0;
\* if_errors does the same with the error count.
C10_CallbackIffCount == []C10_Calls /\ [][C10_Read]_vars

\* after one Warning and no Error on a target, if_warnings has called its
\* callback with 1 and if_errors has returned without calling its own
C10_Witness ==
    \E t \in Threads :
        /\ th[t].op = "if_warnings" /\ th[t].pc = "done"
        /\ th[t].calls = 1 /\ th[t].arg = 1
        /\ targets[th[t].tg].errors = 0
        /\ th[t].cbtg # th[t].tg

\* if_errors has returned Ok without calling its callback on a target that
\* holds a warning and no error
C10_WitnessNoErrors ==
    \E t \in Threads :
        /\ th[t].op = "if_errors" /\ th[t].pc = "done"
        /\ th[t].calls = 0 /\ th[t].res = "Ok"
        /\ targets[th[t].tg].warnings = 1

\* a step of thread t inside if_warnings / if_errors whose callback
\* submits to another target: the counters of the target the call is on
\* stay as they are, and so does every counter but the callback target's
C11_Frame ==
    \A t \in Threads :
        (/\ th[t].op \in {"if_warnings", "if_errors"}
         /\ th'[t] # th[t]
         /\ th[t].cbtg # th[t].tg)
        => /\ targets'[th[t].tg].warnings = targets[th[t].tg].warnings
           /\ targets'[th[t].tg].errors = targets[th[t].tg].errors
           /\ \A g \in Allocated :
                 g # th[t].cbtg =>
                    /\ targets'[g].warnings = targets[g].warnings
                    /\ targets'[g].errors = targets[g].errors

\* what a finished if_warnings / if_errors has added to counters: one to
\* the callback target's counter of the summary's severity when the
\* callback ran, nothing otherwise
C11_Effect ==
    \A t \in Threads :
        (th[t].op \in {"if_warnings", "if_errors"} /\ th[t].pc = "done") =>
            IF th[t].calls = 0 THEN th[t].dw = 0 /\ th[t].de = 0
            ELSE /\ th[t].cur = th[t].cbtg
                 /\ th[t].dw = (IF th[t].cbkind = "Warning" THEN 1 ELSE 0)
                 /\ th[t].de = (IF th[t].cbkind = "Error" THEN 1 ELSE 0)

\* C11: if_warnings and if_errors never modify a counter of the target
\* they are called on; when the callback submits its summary to another
\* target, only that target's counter increases, by one.
C11_SummaryElsewhere == []C11_Effect /\ [][C11_Frame]_vars

\* if_errors on a target with one error has run its callback, which
\* submitted the summary to the other target: one error on each
C11_Witness ==
    \E t \in Threads :
        /\ th[t].op = "if_errors" /\ th[t].pc = "done"
        /\ th[t].calls = 1 /\ th[t].cbtg # th[t].tg
        /\ targets[th[t].tg].errors = 1
        /\ targets[th[t].cbtg].errors = 1
        /\ th[t].de = 1

\* no step lowers a counter of any target
C12_Step ==
    \A g \in Allocated :
        /\ targets'[g].warnings >= targets[g].warnings
        /\ targets'[g].errors >= targets[g].errors

\* a read holds the counter's value while it holds the guard, and a value
\* a read has returned is never above the counter afterwards
C12_Reads ==
    \A t \in Threads :
        th[t].op \in {"warning_count", "error_count"} =>
            /\ th[t].pc = "unlock" => th[t].val = Counter(th[t].tg, th[t].ctr)
            /\ th[t].pc = "done" => th[t].rval <= Counter(th[t].tg, th[t].ctr)

\* C12: along every execution with concurrent producers and readers the
\* values read by warning_count() and error_count() never decrease: no
\* operation lowers or resets a counter.
C12_Monotone == []C12_Reads /\ [][C12_Step]_vars

\* warning_count() returned 0 and a warning submitted by another thread
\* has raised the counter to 1 since
C12_Witness ==
    \E t \in Threads :
        /\ th[t].op = "warning_count" /\ th[t].pc = "done"
        /\ th[t].rval = 0
        /\ targets[th[t].tg].warnings = 1
        /\ \E u \in Threads : u # t /\ th[u].op = "log_entry"

\* the targets the list holds handles of
ListTargets == {list[i] : i \in 1..Len(list)}

\* find, with the list's guard in hand, has a handle exactly when the list
\* holds a target of that name, and the handle is a clone of that element;
\* the handle it returned is of a target of the list with that name
C13_Find ==
    \A t \in Threads :
        th[t].op = "find" =>
            /\ th[t].pc = "find_unlock" =>
                  /\ (th[t].val # 0) <=> (th[t].name \in ListNames)
                  /\ th[t].val # 0 =>
                        /\ th[t].val \in ListTargets
                        /\ targets[th[t].val].name = th[t].name
            /\ (th[t].pc = "done" /\ th[t].rval # 0) =>
                  /\ th[t].rval \in ListTargets
                  /\ targets[th[t].rval].name = th[t].name

\* the handle create_target returns with Ok, and the one add_target was
\* given, is of the target the list holds; what was submitted through the
\* handles of a target, wherever they came from, is in its counters once
\* the calls have returned
C13_Handles ==
    /\ \A t \in Threads :
          (/\ th[t].op \in {"create_target", "add_target"}
           /\ th[t].pc = "done" /\ th[t].res = "Ok")
          => /\ th[t].rval = th[t].tg
             /\ th[t].tg \in ListTargets
             /\ targets[th[t].tg].shared
    /\ AllReturned =>
          \A g \in Handles :
              /\ targets[g].warnings = submitted[g].w
              /\ targets[g].errors = submitted[g].e

\* targets are never removed from the list nor renamed
C13_Step ==
    /\ Len(list') >= Len(list)
    /\ SubSeq(list', 1, Len(list)) = list
    /\ \A g \in Allocated : targets'[g].name = targets[g].name

BagOfSeq(v) ==
    [a \in {v[k] : k \in 1..Len(v)} |-> Cardinality({k \in 1..Len(v) : v[k] = a})]

\* the lines of a builder: those flushed into the block, then the open one
BuiltLines(b) ==
    IF b.source_line = <<>> THEN b.source.lines
    ELSE Append(b.source.lines, b.source_line[1])

\* lines are the lines of the new_line calls made, in call order, each with
\* the annotations accepted while it was the open line
AsCalled(lines) ==
    /\ Len(lines) = Len(made.lines)
    /\ \A i \in 1..Len(lines) :
          /\ lines[i].line = made.lines[i].line
          /\ lines[i].contents = made.lines[i].contents
          /\ BagOfSeq(lines[i].annotations) = made.lines[i].annotations

\* the builder in hand and the finished entry hold the lines as called;
\* the finished entry has the severity and the message it had
C14_Lines ==
    /\ phase = "building" => AsCalled(BuiltLines(esb[1]))
    /\ phase = "finished" =>
          /\ entry.source # <<>>
          /\ AsCalled(entry.source[1].lines)
          /\ entry.kind = entry0.kind
          /\ entry.text = entry0.text

\* a line flushed into the block stays as it is, through every later call
\* and through finish
C14_Flushed ==
    phase = "building" =>
        LET flushed == esb[1].source.lines
            after == IF phase' = "building" THEN esb'[1].source.lines
                     ELSE IF phase' = "finished" THEN entry'.source[1].lines
                     ELSE flushed
        IN  /\ Len(after) >= Len(flushed)
            /\ SubSeq(after, 1, Len(flushed)) = flushed

\* C14: after any sequence of new_line, annotate_*, note and help calls
\* followed by finish, the entry's source holds one line per new_line
\* call, in call order, each with exactly the annotations that succeeded
\* while it was the open line; a flushed line is never modified; severity
\* and message are unchanged.
C14_LinesAsCalled == []C14_Lines /\ [][C14_Flushed]_vars

\* a finished entry of two lines, each annotated while it was open, built
\* with a note in between
C14_Witness ==
    /\ phase = "finished"
    /\ Len(entry.source[1].lines) = 2
    /\ Len(entry.source[1].lines[1].annotations) = 1
    /\ Len(entry.source[1].lines[2].annotations) = 1
    /\ Len(entry.source[1].notes) = 1

\* C15: an annotate_* call fails with AnnotationOnEmptyLine if and only if
\* no new_line was called on the builder since source()/named_source(),
\* and then the builder in the error's partial configuration is the
\* builder as it was: no line, annotation or note added or removed.
C15_EmptyLineRejected ==
    phase = "building" =>
        \A kind \in EntryKinds, span \in AllSpans, text \in Texts :
            LET r == EntrySourceBuilder_annotate(esb[1], kind, span[1],
                                                 span[2], text)
            IN  /\ (r.kind = "AnnotationOnEmptyLine") <=> (made.lines = <<>>)
                /\ r.kind = "AnnotationOnEmptyLine" =>
                      /\ r.partial = <<esb[1]>>
                      /\ r.value = <<>>

\* an annotate_* call was just refused on a builder that has a note and
\* no line, and the caller holds that builder again
C15_Witness ==
    /\ phase = "building"
    /\ err = "AnnotationOnEmptyLine"
    /\ made.lines = <<>>
    /\ partial = esb
    /\ esb[1].source_line = <<>>
    /\ esb[1].source.lines = <<>>
    /\ Len(esb[1].source.notes) = 1

\* C16: discard() returns an Entry equal in every field (kind, bright,
\* text, source) to the Entry on which source()/named_source() was called.
C16_DiscardRestores ==
    phase = "discarded" => entry = entry0

\* what discard() does return: the entry with its kind, text and source,
\* and with bright set
C16_DiscardSetsBright ==
    phase = "discarded" => entry = [entry0 EXCEPT !.bright = TRUE]

(***************************************************************************)
(* Properties of Display.                                                  *)
(***************************************************************************)
\* the line numbers of the source lines of an entry
LineNumbersOf(e) ==
    IF e.source = <<>> THEN {}
    ELSE {e.source[1].lines[i].line : i \in 1..Len(e.source[1].lines)}

\* the digits of the largest line number of any source line of any member,
\* 1 when there is none
SharedWidth(entries) ==
    LET numbers == UNION {LineNumbersOf(entries[i]) : i \in 1..Len(entries)}
    IN  Len(Decimal(IF numbers = {} THEN 1 ELSE MaxOf(numbers)))

\* C17: a MultiEntry is written with every member at one shared width of
\* the line-number column, the digit count of the largest line number of
\* any source line of any member (1 if no member has a source), also when
\* anchor lines differ from source line numbers.
C17_GroupWidth ==
    phase = "displayed_multi" =>
        out = Flatten([i \in 1..Len(multi) |->
                          Entry_fmt(multi[i], <<SharedWidth(multi)>>)])
              \o << <<>> >>

\* the digits of max(anchor line, largest line number of the lines)
AnchoredWidth(block) ==
    Len(Decimal(MaxOf({block.line_number}
                      \cup {block.lines[i].line : i \in 1..Len(block.lines)})))

\* C18: a source block written standalone uses a line-number column as
\* wide as the digit count of max(anchor line, largest line number among
\* its lines), for every combination of anchor and line numbers.
C18_StandaloneWidth ==
    (phase = "displayed" /\ entry.source # <<>>) =>
        out = << <<EntryKind_fmt(entry.kind), ":", " ">> \o Text(entry.text) >>
              \o Source_fmt(entry.source[1], <<AnchoredWidth(entry.source[1])>>)
              \o << <<>> >>

\* C19: a MultiEntry written has no empty row between its members and
\* exactly one after the last; an Entry written alone ends with exactly
\* one empty row when it has a source and has no empty row when it has
\* none.
C19_TrailingBlank ==
    /\ phase = "displayed_multi" =>
          /\ Len(out) >= 1
          /\ \A i \in 1..Len(out) : (out[i] = <<>>) <=> (i = Len(out))
    /\ phase = "displayed" =>
          /\ Len(out) >= 1
          /\ \A i \in 1..Len(out) :
                (out[i] = <<>>) <=> (i = Len(out) /\ entry.source # <<>>)

\* a group of two members with sources and annotated lines was written:
\* the rows of both members and the empty row at the end
C19_Witness ==
    /\ phase = "displayed_multi"
    /\ Len(multi) = 2
    /\ \A i \in 1..2 :
          /\ multi[i].source # <<>>
          /\ Len(multi[i].source[1].lines) = 1
          /\ Len(multi[i].source[1].lines[1].annotations) = 1
    /\ Len(out) = 11
    /\ out[11] = <<>>

\* notes are the notes of the note / help calls made, in call order, each
\* of the kind of its call
NotesAsCalled(notes) ==
    /\ Len(notes) = Len(made.notes)
    /\ \A i \in 1..Len(notes) :
          /\ EntryKind_fmt(notes[i].kind) = made.notes[i][1]
          /\ notes[i].text = made.notes[i][2]

\* a row that starts with the number of a source line
IsSourceRow(row) ==
    row # <<>> /\ row[1] \in {"0", "1", "2", "3", "4", "5", "6", "7", "8", "9"}

\* the column of the "=" that starts the row of a note, 0 on other rows
NoteColumn(row) ==
    IF \E p \in 1..Len(row) : row[p] = "=" /\ \A q \in 1..(p - 1) : row[q] = " "
    THEN CHOOSE p \in 1..Len(row) : row[p] = "=" /\ \A q \in 1..(p - 1) : row[q] = " "
    ELSE 0

IsNoteRow(row) == NoteColumn(row) > 0

\* a note / help call with a text to write
HasText(call) == call[2] # ""

\* the written rows of the notes are those of the given calls, in call
\* order, each with the kind of its call, and they come after the row of
\* every source line
NotesRendered(calls) ==
    LET rows == SelectSeq(out, IsNoteRow)
    IN  /\ Len(rows) = Len(calls)
        /\ \A i \in 1..Len(rows) :
              /\ rows[i][NoteColumn(rows[i]) + 2] = calls[i][1]
              /\ Text(calls[i][2]) = SubSeq(rows[i], NoteColumn(rows[i]) + 5, Len(rows[i]))
        /\ Cardinality({i \in 1..Len(out) : IsSourceRow(out[i])}) = Len(made.lines)
        /\ \A i, j \in 1..Len(out) :
              (IsSourceRow(out[i]) /\ IsNoteRow(out[j])) => i < j

\* the source block holds the notes of the calls, in call order and with
\* the kinds of the calls, in the builder and in the finished entry
C20_Stored ==
    /\ phase = "building" => NotesAsCalled(esb[1].source.notes)
    /\ phase \in {"finished", "displayed"} =>
          NotesAsCalled(entry.source[1].notes)

\* C20: for any interleaving of note() and help() calls, also with
\* new_line and annotate calls in between, the finished source block holds
\* the notes in the order of the calls, each with the kind of its call,
\* and they are written in that order after every source line (a note
\* writes one row per line of its text, so none when its text is empty).
C20_NotesInOrder ==
    /\ C20_Stored
    /\ phase = "displayed" => NotesRendered(SelectSeq(made.notes, HasText))

\* help("x"), note("") and note("x") were called in that order around a
\* new_line and an accepted annotate, and the finished entry was written:
\* the row of the help, then the row of the second note, after the rows
\* of the line
C20_Witness ==
    /\ phase = "displayed"
    /\ made.notes = <<<<"help", "x">>, <<"note", "">>, <<"note", "x">>>>
    /\ Len(made.lines) = 1
    /\ Len(entry.source[1].lines[1].annotations) = 1
    /\ Len(SelectSeq(out, IsNoteRow)) = 2

(***************************************************************************)
(* Properties of the sink, the logging facade and the locks.               *)
(***************************************************************************)
\* the write of a submission, failed or not, changes no counter
C21_WriteStep ==
    \A t \in Threads :
        (th[t].pc = "write" /\ th'[t].pc = "done") =>
            \A g \in Allocated :
                /\ targets'[g].warnings = targets[g].warnings
                /\ targets'[g].errors = targets[g].errors

\* a submission of an Error or a Warning (entry or group) whose write
\* failed has returned the io error and has added one to its counter; the
\* counters hold every submission once the calls have returned
C21_Kept ==
    /\ \A t \in Threads :
          (/\ th[t].pc = "done"
           /\ th[t].op \in {"log_entry", "log_multi_entry"}
           /\ th[t].res = "IoError")
          => /\ th[t].kind = "Error" => (th[t].de = 1 /\ th[t].dw = 0)
             /\ th[t].kind = "Warning" => (th[t].dw = 1 /\ th[t].de = 0)
    /\ AllReturned =>
          \A g \in Allocated :
              /\ targets[g].warnings = submitted[g].w
              /\ targets[g].errors = submitted[g].e
              /\ targets[g].written.Warning <= submitted[g].w
              /\ targets[g].written.Error <= submitted[g].e

C22_Forwarded ==
    \A t \in Threads :
        (th[t].pc = "done" /\ th[t].via = "log" /\ th[t].res # "Panic") =>
            IF th[t].name \in ListNames
            THEN /\ th[t].wrote
                 /\ th[t].de = (IF th[t].level = "Error" THEN 1 ELSE 0)
                 /\ th[t].dw = (IF th[t].level = "Warn" THEN 1 ELSE 0)
            ELSE ~th[t].wrote /\ th[t].de = 0 /\ th[t].dw = 0

\* what Log::log does: the records of the levels Error, Warn and Info are
\* written and counted, those of Debug and Trace are dropped
C22_ForwardedBelowDebug ==
    \A t \in Threads :
        (th[t].pc = "done" /\ th[t].via = "log" /\ th[t].res # "Panic") =>
            IF th[t].name \in ListNames /\ th[t].level \in {"Error", "Warn", "Info"}
            THEN /\ th[t].wrote
                 /\ th[t].de = (IF th[t].level = "Error" THEN 1 ELSE 0)
                 /\ th[t].dw = (IF th[t].level = "Warn" THEN 1 ELSE 0)
            ELSE ~th[t].wrote /\ th[t].de = 0 /\ th[t].dw = 0

\* a Help entry sent with Entry::log to the registered "my-target" has
\* returned without a write
C22_HelpDropped ==
    \E t \in Threads :
        /\ th[t].pc = "done" /\ th[t].via = "log"
        /\ th[t].kind = "Help" /\ th[t].level = "Debug"
        /\ th[t].name = "my-target" /\ ~th[t].wrote

\* a call of log_to_prologue_logger with a name that is not in the list
\* has returned Ok without a write and without an increment
C29_Result ==
    \A t \in Threads :
        (th[t].pc = "done" /\ th[t].via = "logger" /\ th[t].name \notin ListNames)
        => /\ th[t].res = "Ok"
           /\ ~th[t].wrote
           /\ th[t].dw = 0 /\ th[t].de = 0
           /\ th[t].op = "log_to_prologue_logger"

\* no step of such a call changes the list, a counter or a sink
C29_Frame ==
    \A t \in Threads :
        (/\ th'[t] # th[t]
         /\ \/ th[t].via = "logger" /\ th[t].name \notin ListNames
            \/ th'[t].via = "logger" /\ th'[t].name \notin ListNames)
        => /\ list' = list
           /\ targets' = targets
           /\ submitted' = submitted

\* C29: log_to_prologue_logger of an Entry, a MultiEntry or a Task with a
\* name that is not in the logger's list returns Ok and writes nothing;
\* no step of the call changes the list or a target's counters.
C29_UnregisteredDropped == []C29_Result /\ [][C29_Frame]_vars

\* a group whose worst member is an Error has been submitted with the name
\* "", which is the name of a Target but of none in the list, and the call
\* has returned: nothing is written or counted, the list is as it was
C29_Witness ==
    /\ \E t \in Threads :
          /\ th[t].pc = "done" /\ th[t].via = "logger" /\ th[t].name = ""
          /\ th[t].sub = "log_multi_entry" /\ th[t].kind = "Error"
          /\ th[t].res = "Ok"
    /\ \A g \in Allocated :
          /\ targets[g].written = [Warning |-> 0, Error |-> 0, Other |-> 0]
          /\ targets[g].errors = 0
    /\ list = <<1>>

\* the submissions of each severity written to a target are at most its
\* counter of that severity
C24_Written ==
    \A g \in Allocated :
        /\ targets[g].written.Warning <= targets[g].warnings
        /\ targets[g].written.Error <= targets[g].errors

\* the count a thread reads under the guard covers every submission of
\* that severity already written to the target
C24_Read ==
    \A t \in Threads :
        (th[t].pc = "lock" /\ th'[t].pc = "unlock") =>
            LET g == th[t].cur IN
            th'[t].val >=
                (IF th[t].ctr = "errors" THEN targets[g].written.Error
                                         ELSE targets[g].written.Warning)

\* C24: in every reachable state the Warning (Error) submissions already
\* written to a Target's sink are at most its warning_count (error_count),
\* so a count read by if_warnings / if_errors after a write never omits it.
C24_CountCoversWrites == []C24_Written /\ [][C24_Read]_vars

\* if_warnings has read the count 1 of a target to which one Warning has
\* been written
C24_Witness ==
    \E t \in Threads :
        /\ th[t].op = "if_warnings" /\ th[t].count = 1
        /\ targets[th[t].tg].written.Warning = 1
        /\ targets[th[t].tg].warnings = 1

\* the mutexes thread t holds
HeldBy(t) ==
    {<<g, "warnings">> : g \in {h \in Allocated : targets[h].warnings_lock = t}}
    \cup {<<g, "errors">> : g \in {h \in Allocated : targets[h].errors_lock = t}}
    \cup (IF list_lock = t THEN {<<0, "list">>} ELSE {})

\* thread t is at a lock()
Waiting(t) == th[t].pc \in {"lock", "find_lock", "push_lock"}

\* thread t is inside a call
InCall(t) == th[t].pc \notin {"idle", "done"}

\* a thread at a lock() holds no mutex, a thread outside a call holds
\* none, and some thread inside a call can always take its next step
C23_NoHoldAndWait ==
    /\ \A t \in Threads : (Waiting(t) \/ ~InCall(t)) => HeldBy(t) = {}
    /\ (\E t \in Threads : InCall(t)) => \E t \in Threads : ENABLED ThreadStep(t)

\* C23: under every interleaving of submissions, count reads, if_warnings
\* / if_errors (with callbacks that submit to the same Target or call
\* registry operations), find, create_target and add_target, every call
\* eventually returns: no thread waits for a lock while it holds one, so
\* no deadlock is reachable.
C23_EveryCallReturns ==
    /\ []C23_NoHoldAndWait
    /\ \A t \in Threads : InCall(t) ~> (th[t].pc = "done")

\* if_warnings has called its callback, which submits a Warning to the
\* target it was invoked on and is at the lock of the counter it has just
\* read, while the other thread is inside add_target
C23_Witness ==
    \E t \in Threads, u \in Threads :
        /\ t # u
        /\ th[t].op = "if_warnings" /\ th[t].calls = 1
        /\ th[t].cur = th[t].tg /\ th[t].pc = "lock"
        /\ th[u].op = "add_target" /\ th[u].pc = "push_lock"

(***************************************************************************)
(* Properties of the rows of a written line.                               *)
(***************************************************************************)
\* the line of the written entry, and its annotations
DrawnLine == entry.source[1].lines[1]
Drawn == DrawnLine.annotations
\* the width of the margin of the written entry
DrawnWidth == Source_width(entry.source[1])
\* an entry with one line has been written
LineDisplayed ==
    /\ phase = "displayed"
    /\ entry.source # <<>>
    /\ Len(entry.source[1].lines) = 1
\* the rows written for the line: those between the three rows of the
\* header and the rows that close the block
LineRows ==
    SubSeq(out, 4, Len(out) - (IF Len(Drawn) > 0 THEN 1 ELSE 2))
\* the columns of a row: what follows the margin bar
Columns(row) == SubSeq(row, DrawnWidth + 3, Len(row))
\* what column c (from 0) of a row holds
At(row, c) == IF c + 1 <= Len(Columns(row)) THEN Columns(row)[c + 1] ELSE " "
\* the row starts with the margin of a row without number
HasMargin(row) ==
    Len(row) >= DrawnWidth + 2 /\ SubSeq(row, 1, DrawnWidth + 2) = Margin(DrawnWidth)
\* a pad was computed from a cursor beyond the annotation
Underflows(row) == \E i \in 1..Len(row) : row[i] = SubtractOverflow
\* the numbered row of the line
IsNumberedRow(row) ==
    row = PadRight(Decimal(DrawnLine.line), DrawnWidth) \o <<" ", "|", " ">>
              \o Text(DrawnLine.contents)

\* C25: a line whose n >= 1 annotations all have an empty label is written
\* as exactly two rows, the numbered source row and one underline row, with
\* no stem or label row after them.
C25_TwoRows ==
    (/\ LineDisplayed
     /\ Len(Drawn) >= 1
     /\ \A i \in 1..Len(Drawn) : Drawn[i].text = "")
    => /\ Len(LineRows) = 2
       /\ IsNumberedRow(LineRows[1])
       /\ HasMargin(LineRows[2])

\* what the code writes for such a line: a stem row and a label row for
\* every annotation but the last, 2n rows in all
C25_RowsWritten ==
    (LineDisplayed /\ Len(Drawn) >= 1) => Len(LineRows) = 2 * Len(Drawn)

\* two annotations without label on the line: four rows are written
C25_FourRows ==
    /\ LineDisplayed
    /\ Len(Drawn) = 2
    /\ \A i \in 1..2 : Drawn[i].text = ""
    /\ Len(LineRows) = 4

\* the stem row and the label row of annotation k of n
StemRow(k) == LineRows[2 + 2 * (Len(Drawn) - 1 - k) + 1]
LabelRow(k) == LineRows[2 + 2 * (Len(Drawn) - 1 - k) + 2]
\* some annotation among the first k has a label and starts at column c
StemAt(k, c) ==
    \E i \in 1..k : Drawn[i].text # "" /\ Drawn[i].reference.position = c
\* the columns the rows of a line can reach
DrawnColumns == 0..5

\* C26: with n >= 2 annotations the label of the rightmost one is written
\* inline on the underline row; every other annotation, rightmost first,
\* has a stem row and a label row: its label starts at its own position,
\* every annotation to its left draws one '|' at its position if it has a
\* label and blanks if it has none, and the annotations to its right draw
\* nothing.  (Stated for the lines that are written without underflow.)
C26_RightToLeft ==
    (/\ LineDisplayed
     /\ Len(Drawn) >= 2
     /\ \A r \in 1..Len(LineRows) : ~Underflows(LineRows[r]))
    => LET n == Len(Drawn) IN
       /\ Len(LineRows) = 2 * n
       /\ LET under == Columns(LineRows[2])
              last == OffsetAfter(Drawn, n)
          IN  SubSeq(under, last + 1, Len(under)) = <<" ">> \o Text(Drawn[n].text)
       /\ \A k \in 1..(n - 1) :
             /\ HasMargin(StemRow(k)) /\ HasMargin(LabelRow(k))
             /\ \A c \in DrawnColumns :
                   At(StemRow(k), c) = (IF StemAt(k, c) THEN "|" ELSE " ")
             /\ \A c \in 0..(Drawn[k].reference.position - 1) :
                   At(LabelRow(k), c) = (IF StemAt(k - 1, c) THEN "|" ELSE " ")
             /\ At(LabelRow(k), Drawn[k].reference.position)
                    = (IF Drawn[k].text = "" THEN " " ELSE Drawn[k].text)

\* three annotations, the leftmost of length 0 with a label: the '|' of
\* the second one is written one column to the right of its position
C26_StemShifted ==
    /\ LineDisplayed
    /\ Len(Drawn) = 3
    /\ Drawn[1].reference.len = 0 /\ Drawn[1].text # ""
    /\ Drawn[2].text # ""
    /\ \A r \in 1..Len(LineRows) : ~Underflows(LineRows[r])
    /\ At(StemRow(2), Drawn[2].reference.position) = " "
    /\ At(StemRow(2), Drawn[2].reference.position + 1) = "|"

\* the glyph of an annotation's underline
Glyph(style) == IF style = "Help" THEN "-" ELSE "^"
\* the sum of the lengths of annotations 1..k
RECURSIVE SumLen(_, _)
SumLen(annotations, k) ==
    IF k = 0 THEN 0 ELSE annotations[k].reference.len + SumLen(annotations, k - 1)

C30_NoUnderflow ==
    LineDisplayed => \A r \in 1..Len(out) : ~Underflows(out[r])

\* an annotation of length 0 accepted after one that starts at the same
\* position: the sort keeps it behind, and its pad on the underline row is
\* computed from the end of the first
C30_Underflow ==
    /\ LineDisplayed
    /\ Len(Drawn) = 2
    /\ Drawn[1].reference.position = Drawn[2].reference.position
    /\ Drawn[1].reference.len > 0 /\ Drawn[2].reference.len = 0
    /\ Underflows(LineRows[2])

\* the lines written without underflow on which every annotation with a
\* label has a length are laid out as C26 says
C26_RightToLeftWithLength ==
    LineDisplayed =>
        ((\A i \in 1..Len(Drawn) :
              Drawn[i].text # "" => Drawn[i].reference.len > 0)
         => C26_RightToLeft)

\* a row that holds only the padded margin bar
IsMarginRow(row) == Len(row) >= 2 /\ row = Margin(Len(row) - 2)

\* C28: the rows written for a finished Source Block (any number of lines,
\* the last one annotated or not, any number of notes) never hold two
\* consecutive blank margin rows.
C28_NoDoubleMargin ==
    (phase = "displayed" /\ entry.source # <<>>) =>
        \A i \in 1..(Len(out) - 1) : ~(IsMarginRow(out[i]) /\ IsMarginRow(out[i + 1]))

\* a block whose only line has no annotation and that has a note: the
\* closing margin row is followed by the margin row of the notes
C28_DoubleMargin ==
    /\ phase = "displayed" /\ entry.source # <<>>
    /\ Len(entry.source[1].lines) = 1
    /\ entry.source[1].lines[1].annotations = <<>>
    /\ Len(entry.source[1].notes) = 1
    /\ IsMarginRow(out[5]) /\ IsMarginRow(out[6])

\* a block without lines: the margin row of the header is followed by the
\* closing margin row
C28_DoubleMarginNoLines ==
    /\ phase = "displayed" /\ entry.source # <<>>
    /\ entry.source[1].lines = <<>>
    /\ entry.source[1].notes = <<>>
    /\ IsMarginRow(out[3]) /\ IsMarginRow(out[4])

\* what the code writes: two margin rows follow each other exactly when
\* the block has no line, or its last line has no annotation and the block
\* has notes
C28_DoubleMarginWhen ==
    (phase = "displayed" /\ entry.source # <<>>) =>
        LET src == entry.source[1]
            n == Len(src.lines)
        IN  (\E i \in 1..(Len(out) - 1) : IsMarginRow(out[i]) /\ IsMarginRow(out[i + 1]))
            <=> \/ n = 0
                \/ src.lines[n].annotations = <<>> /\ src.notes # <<>>

====
